---- MODULE Spec2Model ----
(***************************************************************************)
(* Duplicate-detection and suppression engine of the document archive:     *)
(* the documents / duplicates / deleted_duplicates_memory tables, the      *)
(* services of src/src/services/documentService.ts that read and write     *)
(* them, and the upload page handlers of src/src/pages/Upload.tsx.         *)
(*                                                                         *)
(* Every service call is a sequence of store requests; each request is one *)
(* atomic step of the model and may fail.  The sessions of Spec take turns *)
(* call by call.                                                           *)
(***************************************************************************)
EXTENDS Integers, Sequences, FiniteSets, TLC

(***************************************************************************)
(* Bounds of the model.                                                    *)
(***************************************************************************)
MaxDocs == 2

MaxCalls == 4

\* The longest hash string the scoring is applied to on its own.
MaxHashLen == 3

\* The longest list of candidates the ranking is applied to on its own.
MaxCandidates == 10

Procs == {"p1", "p2"}

Users == {"u1", "u2"}

Files == {"fa", "fb"}

\* The files each user has at hand.
FilesOf == [u1 |-> {"fa", "fb"}, u2 |-> {"fa"}]

\* SQL NULL of a TEXT column: a value outside the hex alphabet 0..15.
NULL == <<-1>>

(***************************************************************************)
(* Roles (user_roles table).  handle_new_user gives every account the      *)
(* role 'user'; the make-admin script adds 'admin'.                        *)
(***************************************************************************)
UserRoles == [u1 |-> {"user", "admin"}, u2 |-> {"user"}]

has_role(u, r) == r \in UserRoles[u]

is_admin_or_manager(u) == has_role(u, "admin") \/ has_role(u, "manager")

(***************************************************************************)
(* Row level security policies.                                            *)
(***************************************************************************)
\* "Users can view own documents" / "Users can update own documents"
DocumentsSelectPolicy(uid, row) == row.user_id = uid \/ is_admin_or_manager(uid)

DocumentsUpdatePolicy(uid, row) == row.user_id = uid \/ is_admin_or_manager(uid)

\* "Admins can delete documents"
DocumentsDeletePolicy(uid, row) == has_role(uid, "admin")

\* A DELETE policy on duplicates with USING (true), like its UPDATE policy.
DuplicatesDeletePolicy_Open(uid, row) == TRUE

\* duplicates has SELECT, INSERT and UPDATE policies and no DELETE policy.
DuplicatesDeletePolicy(uid, row) == FALSE

\* "Users can view own deleted duplicates memory"
MemorySelectPolicy(uid, row) == row.user_id = uid

\* "Users can create own deleted duplicates memory"
MemoryInsertPolicy(uid, row) == row.user_id = uid

(***************************************************************************)
(* Fingerprinter.                                                          *)
(***************************************************************************)
\* file.arrayBuffer(): the bytes of the selected files.
FileBytes == [fa |-> <<0>>, fb |-> <<1>>]

\* uint8Array[i].toString(16).padStart(2, '0'), concatenated.
RECURSIVE hexString(_)
hexString(bytes) ==
  IF bytes = <<>> THEN <<>>
  ELSE <<Head(bytes) \div 16, Head(bytes) % 16>> \o hexString(Tail(bytes))

\* crypto-js md5 followed by toString(): a fixed function from text to a
\* fixed-length lowercase hex string.  The digests of the texts the model
\* hashes are listed; "abc1" and "abc2" agree in 3 of 4 positions.
md5(text) ==
  CASE text = <<0, 0>>   -> <<10, 11, 12, 1>>
    [] text = <<0, 1>>   -> <<10, 11, 12, 2>>
    [] text = <<15, 15>> -> <<13, 14, 15, 3>>
    [] OTHER             -> <<13, 4, 1, 13>>

generateContentHash(file) == md5(hexString(FileBytes[file]))

Hashes == {generateContentHash(f) : f \in Files}

(***************************************************************************)
(* State.                                                                  *)
(***************************************************************************)
VARIABLES
  documents,                \* public.documents: id -> [user_id, content_hash]
  objects,                  \* storage bucket 'documents': the stored object keys
  nextId,                   \* supply of fresh ids (gen_random_uuid / file path)
  deleted_duplicates_memory,\* public.deleted_duplicates_memory rows
  duplicates,               \* public.duplicates rows
  session,                  \* the user signed in on each browser session
  frame,                    \* the call each session is executing
  processedFiles,           \* Upload page state, per session
  duplicateResults,         \* Upload page state, per session
  past,                     \* the deleteDuplicateDocuments calls that returned
  calls,                    \* the calls the sessions have begun
  overlap                   \* whether calls of different sessions overlap

vars == <<documents, objects, nextId, deleted_duplicates_memory, duplicates,
          session, frame, processedFiles, duplicateResults, past, calls,
          overlap>>

page == <<processedFiles, duplicateResults>>

NoResult == [exact |-> <<>>, similar |-> <<>>]

\* A session that is executing nothing.  wrote: the store writes the call has
\* made; emitted: the events the call has sent to logActivity; failed: the
\* requests of the call that failed; memAtStart and deletedBefore: what the
\* store held and which deletions had returned when a scan began;
\* hashUpdate: what the updateDocumentHash call of the same handleProcess
\* has returned, once it has; batch: the selected files handleProcess has
\* not come to yet.
Idle ==
  [op |-> "none", pc |-> "idle", flow |-> "none", userId |-> "u1",
   file |-> "fa", documentId |-> 0, sourceDocumentId |-> 0,
   duplicateDocumentId |-> 0, hashA |-> NULL, hashB |-> NULL,
   contentHash |-> NULL, allDocuments |-> <<>>, documentsToCheck |-> <<>>,
   sourceDoc |-> <<>>, duplicateDoc |-> <<>>, document |-> <<>>,
   wrote |-> {}, emitted |-> 0, failed |-> {}, ret |-> "none",
   result |-> NoResult, value |-> NULL,
   memAtStart |-> {}, deletedBefore |-> {}, hashUpdate |-> <<>>,
   batch |-> <<>>]

\* A call may begin in a session that executes nothing, once every returned
\* call has been taken note of by its caller; when the sessions take turns,
\* once no other session is executing a call.
Free(p) ==
  /\ frame[p].pc = "idle"
  /\ \A q \in Procs : frame[q].pc # "done"
  /\ overlap \/ \A q \in Procs : frame[q].pc = "idle"

\* A request served only while no other session has a call in flight.
At_Exclusive(p, pc) ==
  /\ frame[p].pc = pc
  /\ \A q \in Procs \ {p} : frame[q].pc = "idle"

\* A request of a call in flight may be served.
At(p, pc) ==
  /\ frame[p].pc = pc
  /\ \A q \in Procs : frame[q].pc # "done"

InitStore ==
  /\ documents = <<>>
  /\ objects = {}
  /\ nextId = 1
  /\ deleted_duplicates_memory = {}
  /\ duplicates = {}
  /\ frame = [p \in Procs |-> Idle]
  /\ processedFiles = [p \in Procs |-> <<>>]
  /\ duplicateResults = [p \in Procs |-> NoResult]
  /\ past = {}
  /\ calls = 0

\* Two sessions of different users, taking turns.
Init ==
  /\ InitStore
  /\ session = [p1 |-> "u1", p2 |-> "u2"]
  /\ overlap = FALSE

(***************************************************************************)
(* Store requests.                                                         *)
(***************************************************************************)
DocIds == DOMAIN documents

DocRow(id) == [id |-> id, content_hash |-> documents[id].content_hash]

\* All enumerations of a finite set as a sequence: a SELECT without ORDER BY
\* returns the matching rows in an order the database chooses.
RECURSIVE Orders(_)
Orders(S) ==
  IF S = {} THEN {<<>>}
  ELSE UNION {{<<x>> \o s : s \in Orders(S \ {x})} : x \in S}

Min(a, b) == IF a < b THEN a ELSE b

\* .limit(n)
Limit(rows, n) == SubSeq(rows, 1, Min(Len(rows), n))

\* .single(): exactly one row, otherwise an error.
Single(rows) == Cardinality(rows) = 1

\* documents without the rows ids.
Without(ids) == [id \in DocIds \ ids |-> documents[id]]

\* DELETE FROM documents without the cascade to duplicates.
CascadeDelete_None(ids) == duplicates

\* DELETE FROM documents: the foreign keys of duplicates are ON DELETE CASCADE.
CascadeDelete(ids) ==
  {r \in duplicates : r.source_document_id \notin ids
                      /\ r.duplicate_document_id \notin ids}

\* A row of deleted_duplicates_memory.
MemoryRow(userId, sourceHash, duplicateHash) ==
  [user_id |-> userId, source_content_hash |-> sourceHash,
   duplicate_content_hash |-> duplicateHash]

\* The end of a call: the frame keeps what the call returned until the
\* caller has taken note of it.
EndCall(fr, ret) == [fr EXCEPT !.pc = "done", !.ret = ret]

\* A catch block of a service: await logActivity(".. Failed"), then the
\* statement that follows it.  The event is sent or logActivity rejects.
CatchLog(fr, logOk, why) ==
  IF logOk THEN [fr EXCEPT !.emitted = @ + 1, !.failed = @ \cup {why}]
  ELSE [fr EXCEPT !.failed = @ \cup {why, "catchlog"}]

(***************************************************************************)
(* Duplicate detector: the computation of checkForDuplicates.              *)
(***************************************************************************)
DocLimit == 100

MemoryLimit == 1000

SimilarityThreshold == 70

TopSimilar == 5

\* The character '|' of the pair keys: outside the hex alphabet 0..15.
Bar == 16

\* The value of Math.round(0 / 0); every comparison with it is false.
NaN == -1

\* `${a}|${b}`
PairKey(a, b) == a \o <<Bar>> \o b

\* The Set built from the rows read from deleted_duplicates_memory: both
\* directions of every pair.
deletedHashPairs(deletedPairs) ==
  UNION {{PairKey(r.source_content_hash, r.duplicate_content_hash),
          PairKey(r.duplicate_content_hash, r.source_content_hash)}
         : r \in deletedPairs}

\* JavaScript truthiness of a string | null.
Truthy(h) == h # NULL /\ h # <<>>

isDeleted(pairs, contentHash, docHash) ==
  PairKey(contentHash, docHash) \in pairs \/ PairKey(docHash, contentHash) \in pairs

documentsToCheck(allDocuments, deletedPairs, contentHash) ==
  LET pairs == deletedHashPairs(deletedPairs)
      keep(doc) == /\ Truthy(doc.content_hash)
                   /\ ~isDeleted(pairs, contentHash, doc.content_hash)
  IN SelectSeq(allDocuments, keep)

\* exactDuplicates with the comparison of the hashes inverted.
exactDuplicates_Unequal(toCheck, contentHash) ==
  LET other(doc) == doc.content_hash # contentHash
      exact == SelectSeq(toCheck, other)
  IN [i \in 1..Len(exact) |->
        [id |-> exact[i].id, content_hash |-> exact[i].content_hash,
         match_percentage |-> 100]]

exactDuplicates(toCheck, contentHash) ==
  LET same(doc) == doc.content_hash = contentHash
      exact == SelectSeq(toCheck, same)
  IN [i \in 1..Len(exact) |->
        [id |-> exact[i].id, content_hash |-> exact[i].content_hash,
         match_percentage |-> 100]]

\* Math.floor in the place of Math.round.
MathRound_Floor(num, den) == num \div den

\* Math.round(num / den) for num >= 0, den > 0: halves round up.
MathRound(num, den) == (2 * num + den) \div (2 * den)

similarity(contentHash, docHash) ==
  IF ~Truthy(docHash) THEN 0
  ELSE LET hashLength == Min(Len(contentHash), Len(docHash))
           matchingChars ==
             Cardinality({i \in 1..hashLength : contentHash[i] = docHash[i]})
       IN IF hashLength = 0 THEN NaN
          ELSE MathRound(matchingChars * 100, hashLength)

\* The scored candidates left in the order of the corpus read.
SortBySimilarity_Unsorted(s) == s

\* Array.prototype.sort with (a, b) => b.similarity_score - a.similarity_score:
\* a stable sort, non-increasing in similarity_score.
RECURSIVE SortBySimilarity(_)
SortBySimilarity(s) ==
  IF s = <<>> THEN <<>>
  ELSE LET t == SortBySimilarity(SubSeq(s, 1, Len(s) - 1))
           x == s[Len(s)]
           k == Cardinality({i \in 1..Len(t) :
                               t[i].similarity_score >= x.similarity_score})
       IN SubSeq(t, 1, k) \o <<x>> \o SubSeq(t, k + 1, Len(t))

\* The similarity pass over the candidates the exact pass has left.
similarDocuments_Rest(toCheck, contentHash) ==
  LET other(doc) == doc.content_hash # contentHash
      rest == SelectSeq(toCheck, other)
      scored == [i \in 1..Len(rest) |->
                   [id |-> rest[i].id, content_hash |-> rest[i].content_hash,
                    similarity_score |->
                      similarity(contentHash, rest[i].content_hash)]]
      atLeast(doc) == doc.similarity_score # NaN
                      /\ doc.similarity_score >= SimilarityThreshold
  IN Limit(SortBySimilarity(SelectSeq(scored, atLeast)), TopSimilar)

similarDocuments(toCheck, contentHash) ==
  LET scored == [i \in 1..Len(toCheck) |->
                   [id |-> toCheck[i].id, content_hash |-> toCheck[i].content_hash,
                    similarity_score |->
                      similarity(contentHash, toCheck[i].content_hash)]]
      atLeast(doc) == doc.similarity_score # NaN
                      /\ doc.similarity_score >= SimilarityThreshold
  IN Limit(SortBySimilarity(SelectSeq(scored, atLeast)), TopSimilar)

\* The ids a result reports.
Reported(result) ==
  {result.exact[i].id : i \in 1..Len(result.exact)}
  \cup {result.similar[i].id : i \in 1..Len(result.similar)}

\* The rows a result reports, as (id, content_hash) pairs.
ReportedHashes(result) ==
  {result.exact[i].content_hash : i \in 1..Len(result.exact)}
  \cup {result.similar[i].content_hash : i \in 1..Len(result.similar)}

(***************************************************************************)
(* Upload page: handleProcess, for one selected file.                      *)
(***************************************************************************)
\* handleProcess up to the call of documentService.uploadDocument, and
\* uploadDocument up to its first request (session, validation, file path).
handleProcess(p, f) ==
  /\ Free(p)
  /\ nextId <= MaxDocs
  /\ calls < MaxCalls
  /\ calls' = calls + 1
  /\ frame' = [frame EXCEPT ![p] =
       [Idle EXCEPT !.op = "uploadDocument", !.pc = "up_storage",
                    !.flow = "handleProcess", !.userId = session[p],
                    !.file = f]]
  /\ processedFiles' = [processedFiles EXCEPT ![p] = <<>>]
  /\ duplicateResults' = [duplicateResults EXCEPT ![p] = NoResult]
  /\ UNCHANGED <<documents, objects, nextId, deleted_duplicates_memory,
                 duplicates, session, past, overlap>>

(***************************************************************************)
(* documentService.uploadDocument                                          *)
(***************************************************************************)
\* supabase.storage.from('documents').upload(filePath, file): the object of
\* an upload and its record carry the same number here.
up_storage(p) ==
  /\ At(p, "up_storage")
  /\ \E ok \in BOOLEAN :
       IF ok /\ nextId <= MaxDocs
       THEN /\ objects' = objects \cup {nextId}
            /\ nextId' = nextId + 1
            /\ frame' = [frame EXCEPT ![p].pc = "up_insert",
                                      ![p].documentId = nextId,
                                      ![p].wrote = {"object"}]
       ELSE /\ objects' = objects
            /\ nextId' = nextId
            /\ frame' = [frame EXCEPT ![p] =
                 EndCall([@ EXCEPT !.failed = {"upload"}], "failure")]
  /\ UNCHANGED <<documents, deleted_duplicates_memory, duplicates,
                 session, page, past, calls, overlap>>

\* The first request of updateDocumentHash in a frame.
BeginUpdateDocumentHash(fr) ==
  [fr EXCEPT !.op = "updateDocumentHash", !.pc = "uh_update", !.ret = "none",
             !.wrote = {}, !.emitted = 0, !.failed = {}]

\* insert into documents ... .select().single(); on error the uploaded
\* object is removed again (the outcome of remove is not inspected).  Then
\* await logActivity("Document Uploaded"): a rejection lands in the catch
\* block, which returns success: false.
up_insert(p) ==
  /\ At(p, "up_insert")
  /\ LET id == frame[p].documentId
         row == [user_id |-> frame[p].userId, content_hash |-> NULL] IN
     \E ok \in BOOLEAN, second \in BOOLEAN :
       IF ok
       THEN /\ documents' = (id :> row) @@ documents
            /\ objects' = objects
            /\ LET fr == [frame[p] EXCEPT
                            !.wrote = @ \cup {"record"},
                            !.document = <<[id |-> id,
                                            content_hash |-> row.content_hash]>>]
               IN frame' = [frame EXCEPT ![p] =
                    IF second
                    THEN BeginUpdateDocumentHash([fr EXCEPT !.emitted = @ + 1])
                    ELSE EndCall([fr EXCEPT !.failed = {"log"}], "failure")]
       ELSE /\ documents' = documents
            /\ objects' = IF second THEN objects \ {id} ELSE objects
            /\ frame' = [frame EXCEPT ![p] =
                 EndCall([@ EXCEPT !.failed = {"insert"},
                                   !.wrote = IF second THEN {} ELSE @],
                         "failure")]
  /\ UNCHANGED <<nextId, deleted_duplicates_memory, duplicates, session,
                 page, past, calls, overlap>>

(***************************************************************************)
(* deduplicationService.updateDocumentHash                                 *)
(***************************************************************************)
\* generateContentHash(file), then update documents set content_hash where
\* id = documentId and user_id = userId.  An error reaches the catch block,
\* which logs and rethrows; handleProcess catches and ends the batch.
uh_update(p) ==
  /\ At(p, "uh_update")
  /\ LET fr == frame[p]
         hit(id) == /\ id = fr.documentId
                    /\ documents[id].user_id = fr.userId
                    /\ DocumentsUpdatePolicy(fr.userId, documents[id]) IN
     \E outcome \in {"ok", "hash", "update"}, logOk \in BOOLEAN :
       IF outcome = "ok"
       THEN /\ logOk
            /\ documents' = [id \in DocIds |->
                 IF hit(id)
                 THEN [documents[id] EXCEPT
                         !.content_hash = generateContentHash(fr.file)]
                 ELSE documents[id]]
            /\ frame' = [frame EXCEPT ![p] =
                 [fr EXCEPT !.pc = "uh_verify",
                            !.contentHash = generateContentHash(fr.file),
                            !.wrote = IF \E id \in DocIds : hit(id)
                                      THEN {"hash"} ELSE {}]]
       ELSE /\ documents' = documents
            /\ frame' = [frame EXCEPT ![p] =
                 EndCall(CatchLog(fr, logOk, outcome), "raised")]
  /\ UNCHANGED <<objects, nextId, deleted_duplicates_memory, duplicates,
                 session, page, past, calls, overlap>>

\* What the ledger holds for uid.
MemoryOf(uid) == {r \in deleted_duplicates_memory : r.user_id = uid}

\* The hash pairs of the deleteDuplicateDocuments calls of uid that have
\* returned without error, both documents having a hash.
CompletedDeletes(uid) ==
  {<<e.source_content_hash, e.duplicate_content_hash>> :
     e \in {e \in past : e.kind = "returned" /\ e.user_id = uid}}

\* The first request of checkForDuplicates in a frame.
BeginCheckForDuplicates(fr) ==
  [fr EXCEPT !.op = "checkForDuplicates", !.pc = "cd_docs", !.ret = "none",
             !.wrote = {}, !.emitted = 0, !.failed = {}, !.contentHash = NULL,
             !.memAtStart = MemoryOf(fr.userId),
             !.deletedBefore = CompletedDeletes(fr.userId)]

\* select content_hash where id = documentId and user_id = userId, .single();
\* the hash read back is returned (no event is sent on this path: the
\* logActivity call after the return statement is never reached).
uh_verify(p) ==
  /\ At(p, "uh_verify")
  /\ LET fr == frame[p]
         rows == {id \in DocIds : /\ id = fr.documentId
                                  /\ documents[id].user_id = fr.userId
                                  /\ DocumentsSelectPolicy(fr.userId, documents[id])} IN
     \E ok \in BOOLEAN, logOk \in BOOLEAN :
       IF ok /\ Single(rows)
       THEN /\ logOk
            /\ frame' = [frame EXCEPT ![p] =
                 BeginCheckForDuplicates(
                   [fr EXCEPT !.value = documents[fr.documentId].content_hash,
                              !.hashUpdate =
                                <<[ret |-> "ok", wrote |-> fr.wrote,
                                   emitted |-> fr.emitted,
                                   value |-> documents[fr.documentId].content_hash]>>])]
       ELSE frame' = [frame EXCEPT ![p] =
                 EndCall(CatchLog(fr, logOk, "verify"), "raised")]
  /\ UNCHANGED <<documents, objects, nextId, deleted_duplicates_memory,
                 duplicates, session, page, past, calls, overlap>>

(***************************************************************************)
(* deduplicationService.checkForDuplicates                                 *)
(***************************************************************************)
\* The documentId of a scan for a file that has no record (yet).
NoDocument == 0

\* A scan called on its own, for file f and document d.
checkForDuplicates(p, f, d) ==
  /\ Free(p)
  /\ calls < MaxCalls
  /\ calls' = calls + 1
  /\ frame' = [frame EXCEPT ![p] =
       BeginCheckForDuplicates(
         [Idle EXCEPT !.userId = session[p], !.file = f, !.documentId = d])]
  /\ UNCHANGED <<documents, objects, nextId, deleted_duplicates_memory,
                 duplicates, session, page, past, overlap>>

\* The return of checkForDuplicates, and in handleProcess the statements
\* after it: results.push, setDuplicateResults, setProcessedFiles.
ScanReturn(p, fr) ==
  /\ frame' = [frame EXCEPT ![p] = fr]
  /\ IF fr.flow = "handleProcess" /\ fr.ret = "ok"
     THEN /\ processedFiles' = [processedFiles EXCEPT ![p] =
               <<[document |-> fr.document[1], duplicates |-> fr.result]>>]
          /\ duplicateResults' = [duplicateResults EXCEPT ![p] = fr.result]
     ELSE UNCHANGED page

\* The catch block of checkForDuplicates: log, then return the empty result.
ScanCatch(fr, logOk, why) ==
  EndCall([CatchLog(fr, logOk, why) EXCEPT !.result = NoResult],
          IF logOk THEN "ok" ELSE "raised")

\* The corpus read without the exclusion of the new document itself.
CorpusRows_WithSelf(fr) ==
  {DocRow(id) : id \in
     {id \in DocIds : /\ documents[id].user_id = fr.userId
                      /\ documents[id].content_hash # NULL
                      /\ DocumentsSelectPolicy(fr.userId, documents[id])}}

\* The corpus read without the restriction to the documents that have a
\* hash.
CorpusRows_Unhashed(fr) ==
  {DocRow(id) : id \in
     {id \in DocIds : /\ documents[id].user_id = fr.userId
                      /\ id # fr.documentId
                      /\ DocumentsSelectPolicy(fr.userId, documents[id])}}

\* select id, file_name, content_hash from documents where user_id = userId
\* and id <> documentId and content_hash is not null
CorpusRows(fr) ==
  {DocRow(id) : id \in
     {id \in DocIds : /\ documents[id].user_id = fr.userId
                      /\ id # fr.documentId
                      /\ documents[id].content_hash # NULL
                      /\ DocumentsSelectPolicy(fr.userId, documents[id])}}

\* generateContentHash(file), the 100 ms delay, and the read of the owner's
\* hashed documents other than documentId, at most DocLimit rows.
cd_docs(p) ==
  /\ At(p, "cd_docs")
  /\ LET fr == frame[p]
         rows == CorpusRows(fr) IN
     \E outcome \in {"ok", "hash", "docs"}, logOk \in BOOLEAN :
       IF outcome = "ok"
       THEN /\ logOk
            /\ \E order \in Orders(rows) :
                 frame' = [frame EXCEPT ![p] =
                   [fr EXCEPT !.pc = "cd_mem",
                              !.contentHash = generateContentHash(fr.file),
                              !.allDocuments = Limit(order, DocLimit)]]
            /\ UNCHANGED page
       ELSE ScanReturn(p, ScanCatch(fr, logOk, outcome))
  /\ UNCHANGED <<documents, objects, nextId, deleted_duplicates_memory,
                 duplicates, session, past, calls, overlap>>

\* The read of deleted_duplicates_memory without the restriction to the
\* rows of uid.
MemoryReads_AllOwners(uid) == {deleted_duplicates_memory}

\* The rows a read of deleted_duplicates_memory for uid may return: at most
\* MemoryLimit of them.
MemoryReads(uid) ==
  LET rows == {r \in deleted_duplicates_memory :
                 r.user_id = uid /\ MemorySelectPolicy(uid, r)}
  IN IF Cardinality(rows) <= MemoryLimit THEN {rows}
     ELSE {some \in SUBSET rows : Cardinality(some) = MemoryLimit}

\* The read of the owner's deleted pairs (an error is logged and the scan
\* continues without them), the filter, the exact partition, the scoring,
\* logActivity("Duplicate Check Completed") and the return.
cd_mem(p) ==
  /\ At(p, "cd_mem")
  /\ LET fr == frame[p] IN
     \E memOk \in BOOLEAN, logOk \in BOOLEAN, catchLogOk \in BOOLEAN :
     \E read \in MemoryReads(fr.userId) :
       LET deletedPairs == IF memOk THEN read ELSE {}
           toCheck == documentsToCheck(fr.allDocuments, deletedPairs, fr.contentHash)
           result == [exact |-> exactDuplicates(toCheck, fr.contentHash),
                      similar |-> similarDocuments(toCheck, fr.contentHash)]
           seen == [fr EXCEPT !.documentsToCheck = toCheck,
                              !.failed = IF memOk THEN {} ELSE {"memory"}]
       IN IF logOk
          THEN /\ catchLogOk
               /\ ScanReturn(p, EndCall([seen EXCEPT !.emitted = @ + 1,
                                                     !.result = result], "ok"))
          ELSE ScanReturn(p, ScanCatch(seen, catchLogOk, "log"))
  /\ UNCHANGED <<documents, objects, nextId, deleted_duplicates_memory,
                 duplicates, session, past, calls, overlap>>

(***************************************************************************)
(* deduplicationService.deleteDuplicateDocuments                           *)
(***************************************************************************)
deleteDuplicateDocuments(p, S, D) ==
  /\ Free(p)
  /\ calls < MaxCalls
  /\ calls' = calls + 1
  /\ frame' = [frame EXCEPT ![p] =
       [Idle EXCEPT !.op = "deleteDuplicateDocuments", !.pc = "dd_source",
                    !.userId = session[p], !.sourceDocumentId = S,
                    !.duplicateDocumentId = D]]
  /\ UNCHANGED <<documents, objects, nextId, deleted_duplicates_memory,
                 duplicates, session, page, past, overlap>>

\* The rows of select content_hash, file_name from documents where id = id.
SelectById(uid, id) ==
  {DocRow(d) : d \in {d \in DocIds : d = id /\ DocumentsSelectPolicy(uid, documents[d])}}

\* The only element of a one-row result, as a one-row sequence.
TheRow(rows) == <<CHOOSE r \in rows : TRUE>>

\* The catch block of deleteDuplicateDocuments: log, then rethrow.
DeleteCatch(fr, logOk, why) == EndCall(CatchLog(fr, logOk, why), "raised")

\* select ... where id = sourceDocumentId, .single()
dd_source(p) ==
  /\ At(p, "dd_source")
  /\ LET fr == frame[p]
         rows == SelectById(fr.userId, fr.sourceDocumentId) IN
     \E ok \in BOOLEAN, logOk \in BOOLEAN :
       IF ok /\ Single(rows)
       THEN /\ logOk
            /\ frame' = [frame EXCEPT ![p] =
                 [fr EXCEPT !.pc = "dd_duplicate", !.sourceDoc = TheRow(rows)]]
       ELSE frame' = [frame EXCEPT ![p] = DeleteCatch(fr, logOk, "source")]
  /\ UNCHANGED <<documents, objects, nextId, deleted_duplicates_memory,
                 duplicates, session, page, past, calls, overlap>>

\* Both documents have a content hash.
BothHashes(fr) ==
  /\ Truthy(fr.sourceDoc[1].content_hash)
  /\ Truthy(fr.duplicateDoc[1].content_hash)

\* select ... where id = duplicateDocumentId, .single()
dd_duplicate(p) ==
  /\ At(p, "dd_duplicate")
  /\ LET fr == frame[p]
         rows == SelectById(fr.userId, fr.duplicateDocumentId) IN
     \E ok \in BOOLEAN, logOk \in BOOLEAN :
       IF ok /\ Single(rows)
       THEN /\ logOk
            /\ LET read == [fr EXCEPT !.duplicateDoc = TheRow(rows)]
               IN frame' = [frame EXCEPT ![p] =
                    [read EXCEPT !.pc = IF BothHashes(read) THEN "dd_memory"
                                        ELSE "dd_document"]]
       ELSE frame' = [frame EXCEPT ![p] = DeleteCatch(fr, logOk, "duplicate")]
  /\ UNCHANGED <<documents, objects, nextId, deleted_duplicates_memory,
                 duplicates, session, page, past, calls, overlap>>

\* An insert that leaves the new row as the only row of the table.
InsertMemory_Replace(row) == {row}

\* insert into deleted_duplicates_memory values (row)
InsertMemory(row) == deleted_duplicates_memory \cup {row}

\* insert into deleted_duplicates_memory; an error is logged to the console
\* and the call goes on.
dd_memory(p) ==
  /\ At(p, "dd_memory")
  /\ LET fr == frame[p]
         row == MemoryRow(fr.userId, fr.sourceDoc[1].content_hash,
                          fr.duplicateDoc[1].content_hash) IN
     \E ok \in BOOLEAN :
       IF ok /\ MemoryInsertPolicy(fr.userId, row)
       THEN /\ deleted_duplicates_memory' = InsertMemory(row)
            /\ frame' = [frame EXCEPT ![p].pc = "dd_document",
                                      ![p].wrote = @ \cup {"memory"}]
       ELSE /\ deleted_duplicates_memory' = deleted_duplicates_memory
            /\ frame' = [frame EXCEPT ![p].pc = "dd_document",
                                      ![p].failed = @ \cup {"memory"}]
  /\ UNCHANGED <<documents, objects, nextId, duplicates, session, page, past,
                 calls, overlap>>

\* A call of deleteDuplicateDocuments, for the record of past calls.
PastEvent(kind, fr) ==
  [kind |-> kind, user_id |-> fr.userId,
   source_content_hash |-> fr.sourceDoc[1].content_hash,
   duplicate_content_hash |-> fr.duplicateDoc[1].content_hash]

\* delete from documents where id = duplicateDocumentId and user_id = userId
dd_document(p) ==
  /\ At(p, "dd_document")
  /\ LET fr == frame[p]
         hit == {id \in DocIds : /\ id = fr.duplicateDocumentId
                                 /\ documents[id].user_id = fr.userId
                                 /\ DocumentsDeletePolicy(fr.userId, documents[id])} IN
     \E ok \in BOOLEAN, logOk \in BOOLEAN :
       IF ok
       THEN /\ logOk
            /\ documents' = Without(hit)
            /\ duplicates' = CascadeDelete(hit)
            /\ frame' = [frame EXCEPT ![p].pc = "dd_relationship",
                                      ![p].wrote = IF hit # {}
                                                   THEN @ \cup {"document"} ELSE @]
       ELSE /\ UNCHANGED <<documents, duplicates>>
            /\ frame' = [frame EXCEPT ![p] = DeleteCatch(fr, logOk, "document")]
  /\ UNCHANGED <<objects, nextId, deleted_duplicates_memory, session, page,
                 past, calls, overlap>>

\* delete from duplicates where source_document_id = sourceDocumentId and
\* duplicate_document_id = duplicateDocumentId, then
\* logActivity("Duplicate Document Deleted"): a rejection lands in the catch
\* block, which logs again and rethrows.
dd_relationship(p) ==
  /\ At(p, "dd_relationship")
  /\ LET fr == frame[p]
         hit == {r \in duplicates : /\ r.source_document_id = fr.sourceDocumentId
                                    /\ r.duplicate_document_id = fr.duplicateDocumentId
                                    /\ DuplicatesDeletePolicy(fr.userId, r)} IN
     \E ok \in BOOLEAN, logOk \in BOOLEAN, catchLogOk \in BOOLEAN :
       IF ok
       THEN /\ duplicates' = duplicates \ hit
            /\ LET gone == [fr EXCEPT !.wrote = IF hit # {}
                                                THEN @ \cup {"relationship"} ELSE @]
               IN IF logOk
                  THEN /\ catchLogOk
                       /\ frame' = [frame EXCEPT ![p] =
                            EndCall([gone EXCEPT !.emitted = @ + 1], "ok")]
                       /\ past' = IF BothHashes(fr)
                                  THEN past \cup {PastEvent("returned", fr)}
                                  ELSE past
                  ELSE /\ frame' = [frame EXCEPT ![p] =
                            DeleteCatch(gone, catchLogOk, "log")]
                       /\ past' = past
       ELSE /\ logOk
            /\ duplicates' = duplicates
            /\ past' = past
            /\ frame' = [frame EXCEPT ![p] = DeleteCatch(fr, catchLogOk, "relationship")]
  /\ UNCHANGED <<documents, objects, nextId, deleted_duplicates_memory,
                 session, page, calls, overlap>>

\* The hashes of the files a user has at hand.
HashesOf(u) == {generateContentHash(f) : f \in FilesOf[u]}

(***************************************************************************)
(* deduplicationService.checkIfPreviouslyDeleted                           *)
(***************************************************************************)
\* The rows matched by .eq("user_id", userId).or(and(source = a, duplicate = b),
\* and(source = b, duplicate = a)).
PreviouslyDeletedRows(userId, sourceHash, duplicateHash) ==
  {r \in deleted_duplicates_memory :
     /\ MemorySelectPolicy(userId, r)
     /\ r.user_id = userId
     /\ \/ /\ r.source_content_hash = sourceHash
           /\ r.duplicate_content_hash = duplicateHash
        \/ /\ r.source_content_hash = duplicateHash
           /\ r.duplicate_content_hash = sourceHash}

\* One request; an error is caught and false is returned.
checkIfPreviouslyDeleted(p, sourceHash, duplicateHash) ==
  /\ Free(p)
  /\ calls < MaxCalls
  /\ calls' = calls + 1
  /\ \E ok \in BOOLEAN :
       frame' = [frame EXCEPT ![p] =
         EndCall([Idle EXCEPT !.op = "checkIfPreviouslyDeleted",
                              !.userId = session[p],
                              !.hashA = sourceHash, !.hashB = duplicateHash,
                              !.failed = IF ok THEN {} ELSE {"query"},
                              !.value = ok /\ PreviouslyDeletedRows(
                                          session[p], sourceHash, duplicateHash) # {}],
                 "ok")]
  /\ UNCHANGED <<documents, objects, nextId, deleted_duplicates_memory,
                 duplicates, session, page, past, overlap>>

\* public.check_deleted_duplicate_pair(user_uuid, source_hash, duplicate_hash)
check_deleted_duplicate_pair(user_uuid, source_hash, duplicate_hash) ==
  \E r \in deleted_duplicates_memory :
    /\ r.user_id = user_uuid
    /\ \/ /\ r.source_content_hash = source_hash
          /\ r.duplicate_content_hash = duplicate_hash
       \/ /\ r.source_content_hash = duplicate_hash
          /\ r.duplicate_content_hash = source_hash

(***************************************************************************)
(* Upload page: handleDuplicateAction("delete_duplicate", fileId)          *)
(***************************************************************************)
\* The button is shown for the files of the displayed result.
handleDuplicateAction(p, fileId) ==
  /\ Free(p)
  /\ calls < MaxCalls
  /\ calls' = calls + 1
  /\ fileId \in Reported(duplicateResults[p])
  /\ frame' = [frame EXCEPT ![p] =
       [Idle EXCEPT !.op = "handleDuplicateAction", !.pc = "hd_current",
                    !.userId = session[p], !.duplicateDocumentId = fileId]]
  /\ UNCHANGED <<documents, objects, nextId, deleted_duplicates_memory,
                 duplicates, session, page, past, overlap>>

\* processedFiles.find(pf => the result of pf reports fileId)
FindProcessedFile(p, fileId) ==
  LET found == {i \in 1..Len(processedFiles[p]) :
                  fileId \in Reported(processedFiles[p][i].duplicates)}
  IN IF found = {} THEN <<>>
     ELSE <<processedFiles[p][CHOOSE i \in found : \A j \in found : i <= j]>>

\* select content_hash, file_name from documents where id = fileId, .single();
\* an error is caught by the handler, which shows a toast.
hd_current(p) ==
  /\ At(p, "hd_current")
  /\ LET fr == frame[p]
         rows == SelectById(fr.userId, fr.duplicateDocumentId)
         processedFile == FindProcessedFile(p, fr.duplicateDocumentId) IN
     \E ok \in BOOLEAN :
       IF ok /\ Single(rows)
       THEN frame' = [frame EXCEPT ![p] =
              [fr EXCEPT !.pc = "hd_delete",
                         !.duplicateDoc = TheRow(rows),
                         !.sourceDoc =
                           IF processedFile # <<>>
                              /\ Truthy(TheRow(rows)[1].content_hash)
                           THEN <<processedFile[1].document>> ELSE <<>>]]
       ELSE frame' = [frame EXCEPT ![p] =
              EndCall([fr EXCEPT !.failed = {"current"}], "failure")]
  /\ UNCHANGED <<documents, objects, nextId, deleted_duplicates_memory,
                 duplicates, session, page, past, calls, overlap>>

\* If the uploaded document's record (as returned by the insert) carries a
\* content hash: insert into deleted_duplicates_memory, an error being logged
\* to the console only.  Then delete from documents where id = fileId and
\* user_id = user.id, and drop the file from the displayed result.
hd_delete(p) ==
  /\ At(p, "hd_delete")
  /\ LET fr == frame[p]
         record == fr.sourceDoc # <<>> /\ Truthy(fr.sourceDoc[1].content_hash)
         row == MemoryRow(fr.userId, fr.sourceDoc[1].content_hash,
                          fr.duplicateDoc[1].content_hash)
         hit == {id \in DocIds : /\ id = fr.duplicateDocumentId
                                 /\ documents[id].user_id = fr.userId
                                 /\ DocumentsDeletePolicy(fr.userId, documents[id])}
         drop(s) == SelectSeq(s, LAMBDA f : f.id # fr.duplicateDocumentId) IN
     \E memOk \in BOOLEAN, ok \in BOOLEAN :
       /\ record \/ memOk
       /\ deleted_duplicates_memory' =
            IF record /\ memOk THEN InsertMemory(row)
            ELSE deleted_duplicates_memory
       /\ IF ok
          THEN /\ documents' = Without(hit)
               /\ duplicates' = CascadeDelete(hit)
               /\ duplicateResults' = [duplicateResults EXCEPT ![p] =
                    [exact |-> drop(@.exact), similar |-> drop(@.similar)]]
               /\ frame' = [frame EXCEPT ![p] =
                    EndCall([fr EXCEPT
                               !.wrote = (IF record /\ memOk THEN {"memory"} ELSE {})
                                         \cup (IF hit # {} THEN {"document"} ELSE {})],
                            "ok")]
          ELSE /\ UNCHANGED <<documents, duplicates, duplicateResults>>
               /\ frame' = [frame EXCEPT ![p] =
                    EndCall([fr EXCEPT
                               !.wrote = IF record /\ memOk THEN {"memory"} ELSE {},
                               !.failed = {"document"}],
                            "failure")]
  /\ UNCHANGED <<objects, nextId, session, processedFiles, past, calls, overlap>>

(***************************************************************************)
(* Duplicate Registry: record_relationship                                 *)
(***************************************************************************)
\* The caller of a scan persists a reported match: a row of duplicates for
\* the uploaded document and the reported one.  The table demands that both
\* documents exist and that the pair is new.
record_relationship(p, duplicateId) ==
  /\ Free(p)
  /\ processedFiles[p] # <<>>
  /\ LET pf == processedFiles[p][1]
         sourceId == pf.document.id
         exact == {pf.duplicates.exact[i].id : i \in 1..Len(pf.duplicates.exact)} IN
     /\ duplicateId \in Reported(pf.duplicates)
     /\ sourceId \in DocIds
     /\ duplicateId \in DocIds
     /\ ~ \E r \in duplicates : /\ r.source_document_id = sourceId
                                /\ r.duplicate_document_id = duplicateId
     /\ duplicates' = duplicates \cup
          {[source_document_id |-> sourceId, duplicate_document_id |-> duplicateId,
            status |-> IF duplicateId \in exact THEN "exact" ELSE "similar",
            reviewed_by |-> "none",
         reviewed_at |-> "none"]}
  /\ UNCHANGED <<documents, objects, nextId, deleted_duplicates_memory,
                 session, frame, page, past, calls, overlap>>

(***************************************************************************)
(* deduplicationService.updateDuplicateStatus                              *)
(***************************************************************************)
\* Every status the signature of updateDuplicateStatus admits.
CallerStatuses_Any == {"exact", "similar", "reviewed", "dismissed"}

\* The statuses the callers pass: handleMarkAsReviewed and the bulk action
\* "review" pass reviewed, handleDismiss and the bulk action "dismiss" pass
\* dismissed.
CallerStatuses == {"reviewed", "dismissed"}

\* The rows of duplicates the page of uid lists: the source or the duplicate
\* document belongs to uid.
ListedDuplicates(uid) ==
  {r \in duplicates :
     \/ /\ r.source_document_id \in DocIds
        /\ documents[r.source_document_id].user_id = uid
     \/ /\ r.duplicate_document_id \in DocIds
        /\ documents[r.duplicate_document_id].user_id = uid}

\* "Users can update duplicates": USING (true)
DuplicatesUpdatePolicy(uid, row) == TRUE

\* update duplicates set status, reviewed_at, reviewed_by where id =
\* duplicateId, then logActivity("Duplicate Status Updated"); an error or a
\* rejection lands in the catch block, which logs and rethrows.  The row is
\* named by its pair of documents.
updateDuplicateStatus(p, row, status) ==
  /\ Free(p)
  /\ calls < MaxCalls
  /\ calls' = calls + 1
  /\ LET fr == [Idle EXCEPT !.op = "updateDuplicateStatus",
                            !.userId = session[p],
                            !.sourceDocumentId = row.source_document_id,
                            !.duplicateDocumentId = row.duplicate_document_id]
         hit == {r \in duplicates : r = row /\ DuplicatesUpdatePolicy(session[p], r)} IN
     \E ok \in BOOLEAN, logOk \in BOOLEAN, catchLogOk \in BOOLEAN :
       IF ok
       THEN /\ duplicates' = (duplicates \ hit) \cup
                 {[r EXCEPT !.status = status, !.reviewed_at = "now",
                             !.reviewed_by = session[p]] : r \in hit}
            /\ LET set == [fr EXCEPT !.wrote = IF hit # {} THEN {"status"} ELSE {}]
               IN IF logOk
                  THEN /\ catchLogOk
                       /\ frame' = [frame EXCEPT ![p] =
                            EndCall([set EXCEPT !.emitted = @ + 1], "ok")]
                  ELSE frame' = [frame EXCEPT ![p] =
                         EndCall(CatchLog(set, catchLogOk, "log"), "raised")]
       ELSE /\ logOk
            /\ duplicates' = duplicates
            /\ frame' = [frame EXCEPT ![p] =
                 EndCall(CatchLog(fr, catchLogOk, "status"), "raised")]
  /\ UNCHANGED <<documents, objects, nextId, deleted_duplicates_memory,
                 session, page, past, overlap>>

(***************************************************************************)
(* deduplicationService.getDeletedDuplicatesCount                          *)
(***************************************************************************)
\* select count(*) from deleted_duplicates_memory where user_id = userId;
\* count || 0 is returned, and an error is caught and 0 is returned.
getDeletedDuplicatesCount(p) ==
  /\ Free(p)
  /\ calls < MaxCalls
  /\ calls' = calls + 1
  /\ LET rows == {r \in deleted_duplicates_memory :
                    r.user_id = session[p] /\ MemorySelectPolicy(session[p], r)} IN
     \E ok \in BOOLEAN :
       frame' = [frame EXCEPT ![p] =
         EndCall([Idle EXCEPT !.op = "getDeletedDuplicatesCount",
                              !.userId = session[p],
                              !.failed = IF ok THEN {} ELSE {"query"},
                              !.value = IF ok THEN Cardinality(rows) ELSE 0],
                 "ok")]
  /\ UNCHANGED <<documents, objects, nextId, deleted_duplicates_memory,
                 duplicates, session, page, past, overlap>>

(***************************************************************************)
(* A session ends in the middle of a call (the tab is closed, the browser  *)
(* crashes): the requests not yet sent are never sent.                     *)
(***************************************************************************)
Abandon(p) ==
  /\ frame[p].pc \notin {"idle", "done"}
  /\ frame' = [frame EXCEPT ![p] = Idle]
  /\ processedFiles' = [processedFiles EXCEPT ![p] = <<>>]
  /\ duplicateResults' = [duplicateResults EXCEPT ![p] = NoResult]
  /\ UNCHANGED <<documents, objects, nextId, deleted_duplicates_memory,
                 duplicates, session, past, calls, overlap>>

(***************************************************************************)
(* The caller has taken note of what a call returned.                      *)
(***************************************************************************)
Return(p) ==
  /\ frame[p].pc = "done"
  /\ frame' = [frame EXCEPT ![p] = Idle]
  /\ UNCHANGED <<documents, objects, nextId, deleted_duplicates_memory,
                 duplicates, session, page, past, calls, overlap>>

Next ==
  \/ \E p \in Procs : \E f \in FilesOf[session[p]] : handleProcess(p, f)
  \/ \E p \in Procs : up_storage(p)
  \/ \E p \in Procs : up_insert(p)
  \/ \E p \in Procs : uh_update(p)
  \/ \E p \in Procs : uh_verify(p)
  \/ \E p \in Procs : \E f \in FilesOf[session[p]] :
        checkForDuplicates(p, f, NoDocument)
  \/ \E p \in Procs : cd_docs(p)
  \/ \E p \in Procs : cd_mem(p)
  \/ \E p \in Procs, S \in DocIds : \E D \in DocIds \ {S} :
        deleteDuplicateDocuments(p, S, D)
  \/ \E p \in Procs : dd_source(p)
  \/ \E p \in Procs : dd_duplicate(p)
  \/ \E p \in Procs : dd_memory(p)
  \/ \E p \in Procs : dd_document(p)
  \/ \E p \in Procs : dd_relationship(p)
  \/ \E p \in Procs : \E a \in HashesOf(session[p]), b \in HashesOf(session[p]) :
        checkIfPreviouslyDeleted(p, a, b)
  \/ \E p \in Procs, d \in DocIds : handleDuplicateAction(p, d)
  \/ \E p \in Procs : hd_current(p)
  \/ \E p \in Procs : hd_delete(p)
  \/ \E p \in Procs, d \in DocIds : record_relationship(p, d)
  \/ \E p \in Procs : \E row \in ListedDuplicates(session[p]) :
        \E status \in CallerStatuses : updateDuplicateStatus(p, row, status)
  \/ \E p \in Procs : getDeletedDuplicatesCount(p)
  \/ \E p \in Procs : Abandon(p)
  \/ \E p \in Procs : Return(p)

Spec == Init /\ [][Next]_vars

(***************************************************************************)
(* Properties.                                                             *)
(***************************************************************************)
\* Process p holds what a call of op has returned or raised.
Done(p, op) == frame[p].pc = "done" /\ frame[p].op = op

\* The scan of frame fr was for new hash a and reports a document of hash b.
Reports(fr, a, b) == fr.contentHash = a /\ b \in ReportedHashes(fr.result)

\* Row r of the ledger suppresses the unordered pair {a, b} for owner u.
Suppresses(r, u, a, b) ==
  /\ r.user_id = u
  /\ \/ r.source_content_hash = a /\ r.duplicate_content_hash = b
     \/ r.source_content_hash = b /\ r.duplicate_content_hash = a

\* C1: a scan for owner u never reports, for a new document of hash a, a
\* document of hash b when the ledger held an entry of u for {a, b} at the
\* start of the scan.
C1_SuppressedPairNotReported ==
  \A p \in Procs : Done(p, "checkForDuplicates") =>
    \A r \in frame[p].memAtStart :
      /\ ~Reports(frame[p], r.source_content_hash, r.duplicate_content_hash)
      /\ ~Reports(frame[p], r.duplicate_content_hash, r.source_content_hash)

\* C2: a scan for owner u that starts after deleteDuplicateDocuments has
\* returned for two hashed documents of u never reports, for new content of
\* one of the two hashes, a document of the other hash.
C2_DeletedPairNotReported ==
  \A p \in Procs : Done(p, "checkForDuplicates") =>
    \A d \in frame[p].deletedBefore :
      /\ ~Reports(frame[p], d[1], d[2])
      /\ ~Reports(frame[p], d[2], d[1])

\* C3: in no state has a call of deleteDuplicateDocuments for two hashed
\* documents deleted the duplicate while the ledger lacks the entry for the
\* pair.
C3_EntryBeforeDeletion ==
  \A p \in Procs :
    /\ frame[p].op = "deleteDuplicateDocuments"
    /\ "document" \in frame[p].wrote
    /\ BothHashes(frame[p])
    => MemoryRow(frame[p].userId, frame[p].sourceDoc[1].content_hash,
                 frame[p].duplicateDoc[1].content_hash)
         \in deleted_duplicates_memory

\* The document against which process p deletes a duplicate: the source
\* document of deleteDuplicateDocuments, the uploaded document of the page.
SourceOf(p) ==
  IF frame[p].op = "deleteDuplicateDocuments" THEN frame[p].sourceDocumentId
  ELSE LET pf == FindProcessedFile(p, frame[p].duplicateDocumentId)
       IN IF pf = <<>> THEN NoDocument ELSE pf[1].document.id

\* A step of C4: the ledger grows only in the step of a deletion of a
\* duplicate, and the step in which a user's deletion removes the duplicate
\* of two hashed documents leaves the ledger with an entry for their hashes.
C4_Step ==
  /\ deleted_duplicates_memory' # deleted_duplicates_memory =>
       \E p \in Procs : frame[p].pc \in {"dd_memory", "hd_delete"}
  /\ \A p \in Procs :
       /\ frame[p].pc \in {"dd_document", "hd_delete"}
       /\ frame[p].duplicateDocumentId \in DocIds
       /\ frame[p].duplicateDocumentId \notin DOMAIN documents'
       /\ SourceOf(p) \in DocIds
       /\ Truthy(documents[SourceOf(p)].content_hash)
       /\ Truthy(documents[frame[p].duplicateDocumentId].content_hash)
       => \E r \in deleted_duplicates_memory' :
            Suppresses(r, frame[p].userId, documents[SourceOf(p)].content_hash,
                       documents[frame[p].duplicateDocumentId].content_hash)

\* C4: a suppression entry is created exactly when a user deletes one side
\* of a detected pair of hashed documents, through deleteDuplicateDocuments
\* or through the upload page.
C4_EntryExactlyOnDeletion == [][C4_Step]_vars

\* C5: a call of deleteDuplicateDocuments in which a step failed raises, and
\* a call that raises has written nothing.
C5_DeleteAllOrNothing ==
  \A p \in Procs : Done(p, "deleteDuplicateDocuments") =>
    /\ frame[p].failed # {} => frame[p].ret = "raised"
    /\ frame[p].ret = "raised" => frame[p].wrote = {}

\* C6: when deleteDuplicateDocuments(S, D, u) returns without error, D is no
\* document, no relationship record (S, D) exists, and the ledger holds the
\* entry of u for the two hashes if both documents had one.
C6_DeletePostcondition ==
  \A p \in Procs :
    Done(p, "deleteDuplicateDocuments") /\ frame[p].ret = "ok" =>
      /\ frame[p].duplicateDocumentId \notin DocIds
      /\ ~ \E r \in duplicates :
             /\ r.source_document_id = frame[p].sourceDocumentId
             /\ r.duplicate_document_id = frame[p].duplicateDocumentId
      /\ BothHashes(frame[p]) =>
           MemoryRow(frame[p].userId, frame[p].sourceDoc[1].content_hash,
                     frame[p].duplicateDoc[1].content_hash)
             \in deleted_duplicates_memory

\* C7: while the ledger holds an entry (u, A, B), checkIfPreviouslyDeleted
\* returns true for (u, A, B) and for (u, B, A), and so does
\* check_deleted_duplicate_pair, A = B included.
C7_SuppressionSymmetric ==
  /\ \A r \in deleted_duplicates_memory :
       /\ check_deleted_duplicate_pair(r.user_id, r.source_content_hash,
                                       r.duplicate_content_hash)
       /\ check_deleted_duplicate_pair(r.user_id, r.duplicate_content_hash,
                                       r.source_content_hash)
  /\ \A p \in Procs : Done(p, "checkIfPreviouslyDeleted") =>
       \A r \in deleted_duplicates_memory :
         Suppresses(r, frame[p].userId, frame[p].hashA, frame[p].hashB)
           => frame[p].value = TRUE

\* The rows of a sequence.
Range(s) == {s[i] : i \in 1..Len(s)}

\* C8: checkIfPreviouslyDeleted(u, A, B) returns true only if the ledger
\* holds an entry of u itself for {A, B}, and a scan for u removes a hashed
\* candidate only if the ledger holds an entry of u itself for the new hash
\* and the candidate's hash: the entries of other owners change neither.
C8_OwnerScoped ==
  \A p \in Procs :
    /\ Done(p, "checkIfPreviouslyDeleted") /\ frame[p].value = TRUE =>
         \E r \in deleted_duplicates_memory :
           Suppresses(r, frame[p].userId, frame[p].hashA, frame[p].hashB)
    /\ Done(p, "checkForDuplicates") =>
         \A doc \in Range(frame[p].allDocuments) :
           \/ doc \in Range(frame[p].documentsToCheck)
           \/ ~Truthy(doc.content_hash)
           \/ \E r \in deleted_duplicates_memory :
                Suppresses(r, frame[p].userId, frame[p].contentHash,
                           doc.content_hash)

\* A scan for one owner has reported a document although another owner's
\* entry suppresses the pair of the new hash and the document's hash.
C8_OtherOwnersEntryIgnored ==
  \E p \in Procs :
    /\ Done(p, "checkForDuplicates")
    /\ \E r \in deleted_duplicates_memory :
         /\ r.user_id # frame[p].userId
         /\ Reports(frame[p], r.source_content_hash, r.duplicate_content_hash)

\* Document id is in the corpus of the scan of frame fr, has the new
\* document's hash, and the ledger holds no entry of the owner for the pair.
ExactCandidate(fr, id) ==
  /\ documents[id].user_id = fr.userId
  /\ id # fr.documentId
  /\ Truthy(fr.contentHash)
  /\ documents[id].content_hash = fr.contentHash
  /\ ~ \E r \in deleted_duplicates_memory :
         Suppresses(r, fr.userId, fr.contentHash, fr.contentHash)

\* The result reports document id in exact with match_percentage 100.
InExact(result, id) ==
  \E i \in 1..Len(result.exact) :
    result.exact[i].id = id /\ result.exact[i].match_percentage = 100

Caught(fr) == fr.failed \ {"memory"} # {}

C10_ScanNeverRaises ==
  \A p \in Procs : Done(p, "checkForDuplicates") =>
    /\ frame[p].ret = "ok"
    /\ frame[p].failed # {} => frame[p].result = NoResult

\* The only requests of the call of frame fr that failed are calls of
\* logActivity.
SinkFailed(fr) == fr.failed # {} /\ fr.failed \subseteq {"log", "catchlog"}

\* The lists the scan of frame fr has computed from the candidates it kept.
Computed(fr) ==
  [exact |-> exactDuplicates(fr.documentsToCheck, fr.contentHash),
   similar |-> similarDocuments(fr.documentsToCheck, fr.contentHash)]

\* C11: a call in which nothing but logActivity failed ends as it would
\* have without the failure: a scan returns the lists it computed, and
\* deleteDuplicateDocuments, updateDuplicateStatus and updateDocumentHash
\* return without error.
C11_SinkFailureHarmless ==
  \A p \in Procs : frame[p].pc = "done" /\ SinkFailed(frame[p]) =>
    /\ frame[p].op = "checkForDuplicates" =>
         frame[p].ret = "ok" /\ frame[p].result = Computed(frame[p])
    /\ frame[p].op \in {"deleteDuplicateDocuments", "updateDuplicateStatus",
                        "updateDocumentHash"} =>
         frame[p].ret = "ok"

\* logActivity has accepted every event the call of frame fr has sent.
SinkWorked(fr) == fr.failed \cap {"log", "catchlog"} = {}

\* C12: every completed scan, hash update and deletion in which the sink
\* accepted what it was sent has sent exactly one event, whether the call
\* succeeded or failed.
C12_OneEventPerCall ==
  \A p \in Procs :
    /\ /\ frame[p].pc = "done"
       /\ frame[p].op \in {"checkForDuplicates", "updateDocumentHash",
                           "deleteDuplicateDocuments"}
       /\ SinkWorked(frame[p])
       => frame[p].emitted = 1
    /\ \A i \in DOMAIN frame[p].hashUpdate : frame[p].hashUpdate[i].emitted = 1

(***************************************************************************)
(* The similarity scoring on its own.  checkForDuplicates applies it to    *)
(* the new hash (an md5 digest) and to the hashes the filter has kept,     *)
(* which are not empty.                                                    *)
(***************************************************************************)
HexDigits == {10, 11}

HashStrings == UNION {[1..n -> HexDigits] : n \in 1..MaxHashLen}

InitSimilarity ==
  /\ documents = <<>>
  /\ objects = {}
  /\ nextId = 1
  /\ deleted_duplicates_memory = {}
  /\ duplicates = {}
  /\ processedFiles = [p \in Procs |-> <<>>]
  /\ duplicateResults = [p \in Procs |-> NoResult]
  /\ past = {}
  /\ calls = 0
  /\ session = [p1 |-> "u1", p2 |-> "u2"]
  /\ overlap = FALSE
  /\ \E contentHash \in HashStrings, docHash \in HashStrings :
       frame = [p \in Procs |->
                  IF p = "p1"
                  THEN [Idle EXCEPT !.op = "similarity", !.pc = "score",
                                    !.hashA = contentHash, !.hashB = docHash]
                  ELSE Idle]

\* The body of the map callback: similarity_score of one candidate.
score(p) ==
  /\ frame[p].pc = "score"
  /\ frame' = [frame EXCEPT ![p] =
       EndCall([@ EXCEPT !.value = similarity(frame[p].hashA, frame[p].hashB)],
               "ok")]
  /\ UNCHANGED <<documents, objects, nextId, deleted_duplicates_memory,
                 duplicates, session, page, past, calls, overlap>>

NextSimilarity == \E p \in Procs : score(p)

SpecSimilarity == InitSimilarity /\ [][NextSimilarity]_vars

\* The positions below the shorter length at which a and b agree.
Agreeing(a, b) == {i \in 1..Len(a) : i <= Len(b) /\ a[i] = b[i]}

\* C13: the score of two non-empty hash strings is the integer nearest to
\* 100 * agreeing positions / shorter length (halves up), lies in 0..100,
\* and is 100 for two identical strings.
C13_SimilarityScore ==
  \A p \in Procs : Done(p, "similarity") =>
    LET a == frame[p].hashA
        b == frame[p].hashB
        v == frame[p].value
        n == IF Len(a) <= Len(b) THEN Len(a) ELSE Len(b)
        m == Cardinality(Agreeing(a, b))
    IN /\ v \in 0..100
       /\ 2 * n * v - n <= 200 * m
       /\ 200 * m < 2 * n * v + n
       /\ a = b => v = 100

\* A score that is rounded up: two of the three positions of two strings
\* agree, and the score is 67.
C13_RoundedScore ==
  \E p \in Procs :
    /\ Done(p, "similarity")
    /\ Len(frame[p].hashA) = 3
    /\ Len(frame[p].hashB) >= 3
    /\ Cardinality(Agreeing(frame[p].hashA, frame[p].hashB)) = 2
    /\ frame[p].value = 67

(***************************************************************************)
(* The ranking of the scored candidates on its own: filter, sort, slice.   *)
(***************************************************************************)
\* Digests of three contents: for the new hash md5("00") they score 100, 75
\* and 0.
CandidateHashes == {md5(<<0, 0>>), md5(<<0, 1>>), md5(<<15, 15>>)}

InitTopSimilar ==
  /\ documents = <<>>
  /\ objects = {}
  /\ nextId = 1
  /\ deleted_duplicates_memory = {}
  /\ duplicates = {}
  /\ processedFiles = [p \in Procs |-> <<>>]
  /\ duplicateResults = [p \in Procs |-> NoResult]
  /\ past = {}
  /\ calls = 0
  /\ session = [p1 |-> "u1", p2 |-> "u2"]
  /\ overlap = FALSE
  /\ \E n \in 0..MaxCandidates : \E hashes \in [1..n -> CandidateHashes] :
       frame = [p \in Procs |->
                  IF p = "p1"
                  THEN [Idle EXCEPT
                          !.op = "similarDocuments", !.pc = "rank",
                          !.contentHash = generateContentHash("fa"),
                          !.documentsToCheck =
                            [i \in 1..n |-> [id |-> i, content_hash |-> hashes[i]]]]
                  ELSE Idle]

\* documentsToCheck.filter(..), then
\* documentsToCheck.map(..).filter(..).sort(..).slice(0, 5)
rank(p) ==
  /\ frame[p].pc = "rank"
  /\ frame' = [frame EXCEPT ![p] =
       EndCall([@ EXCEPT !.result =
                  [exact |-> exactDuplicates(frame[p].documentsToCheck,
                                             frame[p].contentHash),
                   similar |-> similarDocuments(frame[p].documentsToCheck,
                                                frame[p].contentHash)]],
               "ok")]
  /\ UNCHANGED <<documents, objects, nextId, deleted_duplicates_memory,
                 duplicates, session, page, past, calls, overlap>>

NextTopSimilar == \E p \in Procs : rank(p)

SpecTopSimilar == InitTopSimilar /\ [][NextTopSimilar]_vars

\* Entry x of a ranking comes before entry y: a higher score, or the same
\* score and an earlier place among the candidates.
Before(x, y) ==
  \/ x.similarity_score > y.similarity_score
  \/ x.similarity_score = y.similarity_score /\ x.id < y.id

\* C14: similar holds the candidates that score 70 or more, each with its
\* score, the higher score first and equal scores in candidate order; it is
\* cut after 5 entries, and what is cut off comes after every entry kept.
C14_TopFiveSimilar ==
  \A p \in Procs : Done(p, "similarDocuments") =>
    LET c == frame[p].documentsToCheck
        r == frame[p].result.similar
        scored(i) == [id |-> i, content_hash |-> c[i].content_hash,
                      similarity_score |->
                        similarity(frame[p].contentHash, c[i].content_hash)]
        good == {i \in 1..Len(c) : scored(i).similarity_score >= 70}
        kept == {r[k].id : k \in 1..Len(r)}
    IN /\ Len(r) = IF Cardinality(good) < 5 THEN Cardinality(good) ELSE 5
       /\ \A k \in 1..Len(r) : r[k].id \in good /\ r[k] = scored(r[k].id)
       /\ \A k \in 1..Len(r), l \in 1..Len(r) : k < l => Before(r[k], r[l])
       /\ \A i \in good \ kept : \A k \in 1..Len(r) : Before(r[k], scored(i))

\* Ten candidates that all score 70 or more, of both scores and not in the
\* order of their scores, have been ranked: 5 entries are returned.
C14_TenGiveFive ==
  \E p \in Procs :
    /\ Done(p, "similarDocuments")
    /\ Len(frame[p].documentsToCheck) = 10
    /\ \A i \in 1..10 :
         similarity(frame[p].contentHash,
                    frame[p].documentsToCheck[i].content_hash) >= 70
    /\ Len(frame[p].result.similar) = 5
    /\ frame[p].result.similar[1].id > frame[p].result.similar[5].id
    /\ frame[p].result.similar[5].similarity_score = 75

\* The entries of a result.
Entries(result) == Range(result.exact) \cup Range(result.similar)

\* C15: every document a scan for owner u and document docId returns is a
\* document of u other than docId that the corpus read returned with a
\* content hash; the documents that have no hash are in no result, and a
\* scan whose requests all succeed returns without error whether or not
\* such documents exist.
C15_OwnHashedOthersOnly ==
  \A p \in Procs : Done(p, "checkForDuplicates") =>
    /\ \A e \in Entries(frame[p].result) :
         /\ e.id \in DocIds
         /\ documents[e.id].user_id = frame[p].userId
         /\ e.id # frame[p].documentId
         /\ \E doc \in Range(frame[p].allDocuments) :
              doc.id = e.id /\ doc.content_hash = e.content_hash
         /\ e.content_hash # NULL
    /\ \A id \in DocIds :
         documents[id].content_hash = NULL => id \notin Reported(frame[p].result)
    /\ frame[p].failed = {} => frame[p].ret = "ok"

\* A scan has reported a document of the owner, without error, while
\* another document of the owner has no hash.
C15_UnhashedSkipped ==
  \E p \in Procs :
    /\ Done(p, "checkForDuplicates")
    /\ frame[p].failed = {}
    /\ frame[p].ret = "ok"
    /\ Reported(frame[p].result) # {}
    /\ \E id \in DocIds : /\ documents[id].user_id = frame[p].userId
                          /\ id # frame[p].documentId
                          /\ documents[id].content_hash = NULL

\* Rows r and t of duplicates are the same relationship record.
SameRecord(r, t) ==
  /\ r.source_document_id = t.source_document_id
  /\ r.duplicate_document_id = t.duplicate_document_id

\* A step of C16: a record that is reviewed or dismissed keeps its status
\* for as long as it exists, and no record takes the status exact or
\* similar that did not have it.
C16_Step ==
  \A r \in duplicates : \A t \in duplicates' : SameRecord(r, t) =>
    /\ r.status \in {"reviewed", "dismissed"} => t.status = r.status
    /\ t.status \in {"exact", "similar"} => t.status = r.status

\* C16: the status of a relationship record moves from exact or similar to
\* reviewed or dismissed and never changes after that.
C16_StatusStateMachine == [][C16_Step]_vars

\* C17: no step of the engine removes or changes a row of
\* deleted_duplicates_memory: the ledger of every owner only grows.
C17_LedgerOnlyGrows ==
  [][deleted_duplicates_memory \subseteq deleted_duplicates_memory']_vars

\* deleteDuplicateDocuments has written the entry of a pair and deleted the
\* duplicate document, and the ledger holds that entry and an older one.
C17_EntryOutlivesDocument ==
  \E p \in Procs :
    /\ Done(p, "deleteDuplicateDocuments")
    /\ {"memory", "document"} \subseteq frame[p].wrote
    /\ frame[p].duplicateDocumentId \notin DocIds
    /\ MemoryRow(frame[p].userId, frame[p].sourceDoc[1].content_hash,
                 frame[p].duplicateDoc[1].content_hash)
         \in deleted_duplicates_memory
    /\ Cardinality(deleted_duplicates_memory) >= 2

\* C18: a call of checkIfPreviouslyDeleted or getDeletedDuplicatesCount
\* whose read of deleted_duplicates_memory failed raises, and one that
\* returns false or 0 has found no entry of the owner (for the pair).
C18_LedgerErrorsPropagate ==
  \A p \in Procs :
    /\ Done(p, "checkIfPreviouslyDeleted") =>
         /\ "query" \in frame[p].failed => frame[p].ret = "raised"
         /\ frame[p].ret = "ok" /\ frame[p].value = FALSE =>
              PreviouslyDeletedRows(frame[p].userId, frame[p].hashA,
                                    frame[p].hashB) = {}
    /\ Done(p, "getDeletedDuplicatesCount") =>
         /\ "query" \in frame[p].failed => frame[p].ret = "raised"
         /\ frame[p].ret = "ok" /\ frame[p].value = 0 =>
              MemoryOf(frame[p].userId) = {}

(***************************************************************************)
(* Two sessions of one owner whose uploads overlap: each handleProcess     *)
(* awaits its own requests only, and nothing orders the requests of one    *)
(* session with those of the other.                                        *)
(***************************************************************************)
InitConcurrent ==
  /\ InitStore
  /\ session = [p1 |-> "u1", p2 |-> "u1"]
  /\ overlap = TRUE

NextConcurrent ==
  \/ \E p \in Procs : \E f \in FilesOf[session[p]] : handleProcess(p, f)
  \/ \E p \in Procs : up_storage(p)
  \/ \E p \in Procs : up_insert(p)
  \/ \E p \in Procs : uh_update(p)
  \/ \E p \in Procs : uh_verify(p)
  \/ \E p \in Procs : cd_docs(p)
  \/ \E p \in Procs : cd_mem(p)
  \/ \E p \in Procs : Return(p)

SpecConcurrent == InitConcurrent /\ [][NextConcurrent]_vars

\* The ids of the rows of a sequence.
IdsOf(rows) == {rows[i].id : i \in 1..Len(rows)}

\* The scan of an upload in frame fr has read the corpus.
HasRead(fr) ==
  /\ fr.op = "checkForDuplicates"
  /\ fr.flow = "handleProcess"
  /\ fr.pc \in {"cd_mem", "done"}
  /\ fr.failed \cap {"hash", "docs"} = {}

\* The scans of two uploads of the same content by one owner are in flight
\* together and both have read the corpus.
BothHaveRead(p, q) ==
  /\ p # q
  /\ HasRead(frame[p])
  /\ HasRead(frame[q])
  /\ frame[p].userId = frame[q].userId
  /\ frame[p].file = frame[q].file

\* A step in which a scan reads the corpus returns the owner's other
\* documents whose hash is committed at that moment, whatever uploads are in
\* flight.
C19_Step ==
  \A p \in Procs :
    frame[p].pc = "cd_docs" /\ frame'[p].pc = "cd_mem" =>
      IdsOf(frame'[p].allDocuments) =
        {id \in DocIds : /\ documents[id].user_id = frame[p].userId
                         /\ id # frame[p].documentId
                         /\ documents[id].content_hash # NULL}

\* Of two scans that have both read the corpus, one has read the other's
\* document; and a scan without failure reports every document of its
\* corpus that has the new hash.
C19_Pair ==
  /\ \A p \in Procs, q \in Procs : BothHaveRead(p, q) =>
       \/ frame[q].documentId \in IdsOf(frame[p].allDocuments)
       \/ frame[p].documentId \in IdsOf(frame[q].allDocuments)
  /\ \A p \in Procs :
       Done(p, "checkForDuplicates") /\ frame[p].failed = {} =>
         \A doc \in Range(frame[p].allDocuments) :
           doc.content_hash = frame[p].contentHash =>
             doc.id \in Reported(frame[p].result)

C20_ScanRecordsRelationship ==
  \A p \in Procs :
    /\ Done(p, "checkForDuplicates")
    /\ frame[p].flow = "handleProcess"
    /\ frame[p].ret = "ok"
    => \A id \in Reported(frame[p].result) :
         \E r \in duplicates :
           /\ r.source_document_id = frame[p].documentId
           /\ r.duplicate_document_id = id
           /\ r.status \in {"exact", "similar"}

(***************************************************************************)
(* Upload page: handleDeleteDocument, and documentService.deleteDocument   *)
(* as the storage page calls it.                                           *)
(***************************************************************************)
\* The delete of the documents ids: the table without them, the cascade to
\* duplicates, and what the frame notes of it.
Deleted(fr, ids) ==
  [fr EXCEPT !.wrote =
     @ \cup (IF ids # {} THEN {"document"} ELSE {})
       \cup (IF CascadeDelete(ids) # duplicates THEN {"cascade"} ELSE {})]

\* delete from documents where id = documentId and user_id = user.id; then
\* the file is dropped from processedFiles and from the displayed result.
\* An error is caught by the handler, which shows a toast.
handleDeleteDocument(p, documentId) ==
  /\ Free(p)
  /\ calls < MaxCalls
  /\ calls' = calls + 1
  /\ \E i \in 1..Len(processedFiles[p]) :
       processedFiles[p][i].document.id = documentId
  /\ LET fr == [Idle EXCEPT !.op = "handleDeleteDocument",
                            !.userId = session[p], !.documentId = documentId]
         hit == {id \in DocIds : /\ id = documentId
                                 /\ documents[id].user_id = session[p]
                                 /\ DocumentsDeletePolicy(session[p], documents[id])}
         drop(s) == SelectSeq(s, LAMBDA f : f.id # documentId)
         others(s) == SelectSeq(s, LAMBDA pf : pf.document.id # documentId) IN
     \E ok \in BOOLEAN :
       IF ok
       THEN /\ documents' = Without(hit)
            /\ duplicates' = CascadeDelete(hit)
            /\ processedFiles' = [processedFiles EXCEPT ![p] = others(@)]
            /\ duplicateResults' = [duplicateResults EXCEPT ![p] =
                 [exact |-> drop(@.exact), similar |-> drop(@.similar)]]
            /\ frame' = [frame EXCEPT ![p] = EndCall(Deleted(fr, hit), "ok")]
       ELSE /\ UNCHANGED <<documents, duplicates, page>>
            /\ frame' = [frame EXCEPT ![p] =
                 EndCall([fr EXCEPT !.failed = {"document"}], "failure")]
  /\ UNCHANGED <<objects, nextId, deleted_duplicates_memory, session, past,
                 overlap>>

\* "Users can delete own documents" on storage.objects: the first folder of
\* the object's name is the user's id (uploadDocument puts the user's files
\* there), or the user is an admin.
ObjectsDeletePolicy(uid, id) ==
  (id \in DocIds => documents[id].user_id = uid) \/ has_role(uid, "admin")

\* The storage page lists the user's own documents (getDocuments) and calls
\* documentService.deleteDocument(doc.id, doc.storage_path) for one of them.
deleteDocument(p, documentId) ==
  /\ Free(p)
  /\ calls < MaxCalls
  /\ calls' = calls + 1
  /\ documentId \in DocIds
  /\ documents[documentId].user_id = session[p]
  /\ frame' = [frame EXCEPT ![p] =
       [Idle EXCEPT !.op = "deleteDocument", !.pc = "sd_fetch",
                    !.userId = session[p], !.documentId = documentId]]
  /\ UNCHANGED <<documents, objects, nextId, deleted_duplicates_memory,
                 duplicates, session, page, past, overlap>>

\* select file_name, file_size, user_id, file_type where id = documentId,
\* .single(); the error is not inspected.
sd_fetch(p) ==
  /\ At(p, "sd_fetch")
  /\ LET fr == frame[p]
         rows == SelectById(fr.userId, fr.documentId) IN
     \E ok \in BOOLEAN :
       frame' = [frame EXCEPT ![p] =
         [fr EXCEPT !.pc = "sd_storage",
                    !.document = IF ok /\ Single(rows) THEN TheRow(rows) ELSE <<>>]]
  /\ UNCHANGED <<documents, objects, nextId, deleted_duplicates_memory,
                 duplicates, session, page, past, calls, overlap>>

\* storage.from('documents').remove([storagePath]); an error is thrown to
\* the catch block, which returns false.
sd_storage(p) ==
  /\ At(p, "sd_storage")
  /\ LET fr == frame[p]
         hit == {id \in objects : id = fr.documentId
                                  /\ ObjectsDeletePolicy(fr.userId, id)} IN
     \E ok \in BOOLEAN :
       IF ok
       THEN /\ objects' = objects \ hit
            /\ frame' = [frame EXCEPT ![p] =
                 [fr EXCEPT !.pc = "sd_record",
                            !.wrote = IF hit # {} THEN {"object"} ELSE {}]]
       ELSE /\ objects' = objects
            /\ frame' = [frame EXCEPT ![p] =
                 EndCall([fr EXCEPT !.failed = {"storage"}], "failure")]
  /\ UNCHANGED <<documents, nextId, deleted_duplicates_memory, duplicates,
                 session, page, past, calls, overlap>>

\* delete from documents where id = documentId, then, if the document was
\* fetched, logActivity("Document Deleted"); an error or a rejection lands
\* in the catch block, which returns false.
sd_record(p) ==
  /\ At(p, "sd_record")
  /\ LET fr == frame[p]
         hit == {id \in DocIds : /\ id = fr.documentId
                                 /\ DocumentsDeletePolicy(fr.userId, documents[id])} IN
     \E ok \in BOOLEAN, logOk \in BOOLEAN :
       IF ok
       THEN /\ documents' = Without(hit)
            /\ duplicates' = CascadeDelete(hit)
            /\ frame' = [frame EXCEPT ![p] =
                 IF fr.document = <<>>
                 THEN EndCall(Deleted(fr, hit), "ok")
                 ELSE IF logOk
                 THEN EndCall([Deleted(fr, hit) EXCEPT !.emitted = @ + 1], "ok")
                 ELSE EndCall([Deleted(fr, hit) EXCEPT !.failed = {"log"}],
                              "failure")]
       ELSE /\ logOk
            /\ UNCHANGED <<documents, duplicates>>
            /\ frame' = [frame EXCEPT ![p] =
                 EndCall([fr EXCEPT !.failed = {"record"}], "failure")]
  /\ UNCHANGED <<objects, nextId, deleted_duplicates_memory, session, page,
                 past, calls, overlap>>

(***************************************************************************)
(* The registry: uploads, the relationship records of their reported       *)
(* matches, the status updates, and every way of deleting a document.      *)
(***************************************************************************)
NextRegistry ==
  \/ \E p \in Procs : \E f \in FilesOf[session[p]] : handleProcess(p, f)
  \/ \E p \in Procs : up_storage(p)
  \/ \E p \in Procs : up_insert(p)
  \/ \E p \in Procs : uh_update(p)
  \/ \E p \in Procs : uh_verify(p)
  \/ \E p \in Procs : cd_docs(p)
  \/ \E p \in Procs : cd_mem(p)
  \/ \E p \in Procs, d \in DocIds : record_relationship(p, d)
  \/ \E p \in Procs : \E row \in ListedDuplicates(session[p]) :
        \E status \in CallerStatuses : updateDuplicateStatus(p, row, status)
  \/ \E p \in Procs, S \in DocIds : \E D \in DocIds \ {S} :
        deleteDuplicateDocuments(p, S, D)
  \/ \E p \in Procs : dd_source(p)
  \/ \E p \in Procs : dd_duplicate(p)
  \/ \E p \in Procs : dd_memory(p)
  \/ \E p \in Procs : dd_document(p)
  \/ \E p \in Procs : dd_relationship(p)
  \/ \E p \in Procs, d \in DocIds : handleDuplicateAction(p, d)
  \/ \E p \in Procs : hd_current(p)
  \/ \E p \in Procs : hd_delete(p)
  \/ \E p \in Procs, d \in DocIds : handleDeleteDocument(p, d)
  \/ \E p \in Procs, d \in DocIds : deleteDocument(p, d)
  \/ \E p \in Procs : sd_fetch(p)
  \/ \E p \in Procs : sd_storage(p)
  \/ \E p \in Procs : sd_record(p)
  \/ \E p \in Procs : Return(p)

SpecRegistry == Init /\ [][NextRegistry]_vars

\* C21: every relationship record references two existing documents,
\* whichever way documents are deleted.
C21_RecordsReferenceDocuments ==
  \A r \in duplicates :
    r.source_document_id \in DocIds /\ r.duplicate_document_id \in DocIds

\* A delete of a document through the upload page or the storage page has
\* removed relationship records with it.
C21_CascadeHappened ==
  \E p \in Procs :
    /\ frame[p].pc = "done"
    /\ frame[p].op \in {"handleDeleteDocument", "deleteDocument"}
    /\ {"document", "cascade"} \subseteq frame[p].wrote
    /\ frame[p].documentId \notin DocIds

(***************************************************************************)
(* The archive of one owner after three uploads, and calls on it that      *)
(* overlap.                                                                *)
(***************************************************************************)
\* Document 1 of u1 holds the content of fa; document 2, uploaded next by
\* u1 with the same content, was reported document 1 as exact; document 3
\* of u1, with the content of fb, was reported documents 1 and 2 as similar;
\* each reported match was recorded.  Document 4 is an upload of u2.  The
\* pages have been reloaded since.
ArchiveStore ==
  /\ documents = [id \in 1..4 |->
       [user_id |-> IF id = 4 THEN "u2" ELSE "u1",
        content_hash |-> generateContentHash(IF id = 3 THEN "fb" ELSE "fa")]]
  /\ objects = 1..4
  /\ nextId = 5
  /\ deleted_duplicates_memory = {}
  /\ duplicates =
       {[source_document_id |-> 2, duplicate_document_id |-> 1,
         status |-> "exact", reviewed_by |-> "none",
         reviewed_at |-> "none"],
        [source_document_id |-> 3, duplicate_document_id |-> 1,
         status |-> "similar", reviewed_by |-> "none",
         reviewed_at |-> "none"],
        [source_document_id |-> 3, duplicate_document_id |-> 2,
         status |-> "similar", reviewed_by |-> "none",
         reviewed_at |-> "none"]}
  /\ frame = [p \in Procs |-> Idle]
  /\ processedFiles = [p \in Procs |-> <<>>]
  /\ duplicateResults = [p \in Procs |-> NoResult]
  /\ past = {}
  /\ calls = 0

\* The owner of the records runs two calls at once.
InitArchive ==
  /\ ArchiveStore
  /\ session = [p1 |-> "u1", p2 |-> "u1"]
  /\ overlap = TRUE

\* The archive of one owner after two uploads of the content of fa, the
\* second reported the first as exact and the match recorded; the owner has
\* two sessions open.
InitPair ==
  /\ documents = [id \in 1..2 |->
       [user_id |-> "u1", content_hash |-> generateContentHash("fa")]]
  /\ objects = 1..2
  /\ nextId = 3
  /\ deleted_duplicates_memory = {}
  /\ duplicates =
       {[source_document_id |-> 2, duplicate_document_id |-> 1,
         status |-> "exact", reviewed_by |-> "none",
         reviewed_at |-> "none"]}
  /\ frame = [p \in Procs |-> Idle]
  /\ processedFiles = [p \in Procs |-> <<>>]
  /\ duplicateResults = [p \in Procs |-> NoResult]
  /\ past = {}
  /\ calls = 0
  /\ session = [p1 |-> "u1", p2 |-> "u1"]
  /\ overlap = TRUE

\* The requests a call in flight is waiting for, and the caller's taking
\* note of a returned call.
Respond(p) ==
  \/ cd_docs(p)
  \/ cd_mem(p)
  \/ dd_source(p)
  \/ dd_duplicate(p)
  \/ dd_memory(p)
  \/ dd_document(p)
  \/ dd_relationship(p)
  \/ Return(p)

NextResponsive ==
  \/ \E p \in Procs : \E f \in FilesOf[session[p]] :
        checkForDuplicates(p, f, NoDocument)
  \/ \E p \in Procs : \E row \in ListedDuplicates(session[p]) :
        \E status \in CallerStatuses : updateDuplicateStatus(p, row, status)
  \/ \E p \in Procs : \E row \in ListedDuplicates(session[p]) :
        deleteDuplicateDocuments(p, row.source_document_id,
                                 row.duplicate_document_id)
  \/ \E p \in Procs : Respond(p)

\* Every request is answered (the premise of the claim) and the event loop
\* runs every continuation that is ready: weak fairness of each session's
\* pending step. Nothing obliges a user to begin a call.
SpecResponsive ==
  /\ InitPair
  /\ [][NextResponsive]_vars
  /\ \A p \in Procs : WF_vars(Respond(p))

InFlight(p) == frame[p].pc \notin {"idle", "done"}

\* C22: every detection, status-update and deletion call in flight
\* eventually finishes, returning or failing, whatever the other session of
\* the same owner is doing.
C22_CallsFinish ==
  \A p \in Procs :
    (InFlight(p) /\ frame[p].op \in {"checkForDuplicates", "updateDuplicateStatus",
                                     "deleteDuplicateDocuments"})
      ~> (frame[p].pc = "done" /\ frame[p].ret \in {"ok", "failure", "raised"})

\* A deletion and a scan of the same owner are in flight at the same time.
C22_OverlappingCalls ==
  \E p \in Procs, q \in Procs :
    /\ session[p] = session[q]
    /\ frame[p].op = "deleteDuplicateDocuments" /\ InFlight(p)
    /\ frame[q].op = "checkForDuplicates" /\ InFlight(q)

(***************************************************************************)
(* generateContentHash, called twice on the same bytes while the archive   *)
(* changes.                                                                *)
(***************************************************************************)
MaxBytes == 1

Bytes == {0, 1, 255}

\* The contents a file may have: the byte sequences up to MaxBytes long,
\* the empty file among them.
ByteSeqs == UNION {[1..n -> Bytes] : n \in 0..MaxBytes}

\* A digest that takes the number of stored documents into the text.
fingerprint_Salted(bytes) ==
  md5(hexString(bytes \o [i \in 1..(nextId - 1) |-> 0]))

\* The body of generateContentHash on the bytes of its file: the hex text
\* of the bytes, then md5 of the text.  For no bytes the loop does not run
\* and md5 digests the empty text.
fingerprint(bytes) == md5(hexString(bytes))

\* One session holds a file of any content and fingerprints it twice; the
\* other session of the owner uploads meanwhile.
InitFingerprint ==
  /\ documents = <<>> /\ objects = {} /\ nextId = 1
  /\ deleted_duplicates_memory = {} /\ duplicates = {}
  /\ processedFiles = [p \in Procs |-> <<>>]
  /\ duplicateResults = [p \in Procs |-> NoResult]
  /\ past = {} /\ calls = 0
  /\ session = [p1 |-> "u1", p2 |-> "u1"] /\ overlap = TRUE
  /\ \E bytes \in ByteSeqs :
       frame = [p \in Procs |-> IF p = "p1"
                  THEN [Idle EXCEPT !.op = "generateContentHash",
                                    !.pc = "hash_first", !.value = bytes]
                  ELSE Idle]

\* The first call returns; sourceDoc notes the documents table as it was.
hash_first(p) ==
  /\ At(p, "hash_first")
  /\ frame' = [frame EXCEPT ![p] =
       [@ EXCEPT !.pc = "hash_second", !.hashA = fingerprint(frame[p].value),
                 !.sourceDoc = <<documents>>]]
  /\ UNCHANGED <<documents, objects, nextId, deleted_duplicates_memory,
                 duplicates, session, page, past, calls, overlap>>

\* The second call, on the same bytes, returns.
hash_second(p) ==
  /\ At(p, "hash_second")
  /\ frame' = [frame EXCEPT ![p] =
       EndCall([@ EXCEPT !.hashB = fingerprint(frame[p].value)], "ok")]
  /\ UNCHANGED <<documents, objects, nextId, deleted_duplicates_memory,
                 duplicates, session, page, past, calls, overlap>>

NextFingerprint ==
  \/ \E p \in Procs : hash_first(p)
  \/ \E p \in Procs : hash_second(p)
  \/ \E p \in Procs : \E f \in FilesOf[session[p]] : handleProcess(p, f)
  \/ \E p \in Procs : up_storage(p)
  \/ \E p \in Procs : up_insert(p)
  \/ \E p \in Procs : uh_update(p)
  \/ \E p \in Procs : uh_verify(p)
  \/ \E p \in Procs : cd_docs(p)
  \/ \E p \in Procs : cd_mem(p)
  \/ \E p \in Procs : Return(p)

SpecFingerprint == InitFingerprint /\ [][NextFingerprint]_vars

HashTexts == HashStrings \cup {<<>>}

InitAnyHash ==
  /\ documents = <<>> /\ objects = {} /\ nextId = 1
  /\ deleted_duplicates_memory = {} /\ duplicates = {}
  /\ processedFiles = [p \in Procs |-> <<>>]
  /\ duplicateResults = [p \in Procs |-> NoResult]
  /\ past = {} /\ calls = 0
  /\ session = [p1 |-> "u1", p2 |-> "u2"] /\ overlap = FALSE
  /\ \E contentHash \in HashTexts, docHash \in HashTexts :
       frame = [p \in Procs |-> IF p = "p1"
                  THEN [Idle EXCEPT !.op = "similarity", !.pc = "score",
                                    !.hashA = contentHash, !.hashB = docHash]
                  ELSE Idle]

SpecAnyHash == InitAnyHash /\ [][NextSimilarity]_vars

C24_ZeroOverlapExcluded ==
  \A p \in Procs :
    Done(p, "similarity") /\ (frame[p].hashA = <<>> \/ frame[p].hashB = <<>>) =>
      similarDocuments(<<[id |-> 1, content_hash |-> frame[p].hashB]>>,
                       frame[p].hashA) = <<>>

\* C25: the exact pass and the similarity pass run over the same
\* candidates: every document of exact scores 100; when exact is not empty,
\* similar is not empty and begins with a score of 100; and when fewer than
\* 5 candidates score 100, every document of exact is in similar.
C25_ExactAlsoSimilar ==
  \A p \in Procs : Done(p, "similarDocuments") =>
    LET c == frame[p].documentsToCheck
        e == frame[p].result.exact
        r == frame[p].result.similar
        full == {i \in 1..Len(c) :
                   similarity(frame[p].contentHash, c[i].content_hash) = 100}
    IN /\ \A k \in 1..Len(e) :
            similarity(frame[p].contentHash, e[k].content_hash) = 100
       /\ e # <<>> => r # <<>> /\ r[1].similarity_score = 100
       /\ Cardinality(full) < 5 =>
            \A k \in 1..Len(e) : \E l \in 1..Len(r) : r[l].id = e[k].id

\* Some candidates are exact, fewer than 5, and similar holds them ahead of
\* candidates that are not exact.
C25_ExactLeadSimilar ==
  \E p \in Procs :
    /\ Done(p, "similarDocuments")
    /\ LET e == frame[p].result.exact
           r == frame[p].result.similar
       IN /\ Len(e) \in 1..4
          /\ Len(r) = 5
          /\ \A k \in 1..Len(e) : \E l \in 1..Len(e) : r[l].id = e[k].id
          /\ r[5].similarity_score < 100

deleteDuplicateDocumentsV1(p, S, D) ==
  /\ Free(p)
  /\ calls < MaxCalls
  /\ calls' = calls + 1
  /\ frame' = [frame EXCEPT ![p] =
       [Idle EXCEPT !.op = "deleteDuplicateDocumentsV1", !.pc = "dv_relationship",
                    !.userId = session[p], !.sourceDocumentId = S,
                    !.duplicateDocumentId = D]]
  /\ UNCHANGED <<documents, objects, nextId, deleted_duplicates_memory,
                 duplicates, session, page, past, overlap>>

\* delete from duplicates where source_document_id = sourceDocumentId or
\* duplicate_document_id = duplicateDocumentId
dv_relationship(p) ==
  /\ At(p, "dv_relationship")
  /\ LET fr == frame[p]
         hit == {r \in duplicates :
                   /\ \/ r.source_document_id = fr.sourceDocumentId
                      \/ r.duplicate_document_id = fr.duplicateDocumentId
                   /\ DuplicatesDeletePolicy(fr.userId, r)} IN
     \E ok \in BOOLEAN, logOk \in BOOLEAN :
       IF ok
       THEN /\ logOk
            /\ duplicates' = duplicates \ hit
            /\ frame' = [frame EXCEPT ![p].pc = "dv_document",
                                      ![p].wrote = IF hit # {}
                                                   THEN @ \cup {"relationship"} ELSE @]
       ELSE /\ duplicates' = duplicates
            /\ frame' = [frame EXCEPT ![p] = DeleteCatch(fr, logOk, "relationship")]
  /\ UNCHANGED <<documents, objects, nextId, deleted_duplicates_memory,
                 session, page, past, calls, overlap>>

\* delete from documents where id = duplicateDocumentId and user_id = userId,
\* then logActivity("Duplicate Document Deleted"): a rejection lands in the
\* catch block, which logs again and rethrows.
dv_document(p) ==
  /\ At(p, "dv_document")
  /\ LET fr == frame[p]
         hit == {id \in DocIds : /\ id = fr.duplicateDocumentId
                                 /\ documents[id].user_id = fr.userId
                                 /\ DocumentsDeletePolicy(fr.userId, documents[id])} IN
     \E ok \in BOOLEAN, logOk \in BOOLEAN, catchLogOk \in BOOLEAN :
       IF ok
       THEN /\ documents' = Without(hit)
            /\ duplicates' = CascadeDelete(hit)
            /\ LET gone == [fr EXCEPT !.wrote = IF hit # {}
                                                THEN @ \cup {"document"} ELSE @]
               IN IF logOk
                  THEN /\ catchLogOk
                       /\ frame' = [frame EXCEPT ![p] =
                            EndCall([gone EXCEPT !.emitted = @ + 1], "ok")]
                  ELSE frame' = [frame EXCEPT ![p] =
                         DeleteCatch(gone, catchLogOk, "log")]
       ELSE /\ logOk
            /\ UNCHANGED <<documents, duplicates>>
            /\ frame' = [frame EXCEPT ![p] = DeleteCatch(fr, catchLogOk, "document")]
  /\ UNCHANGED <<objects, nextId, deleted_duplicates_memory, session, page,
                 past, calls, overlap>>

\* The users of the archive, taking turns.
InitFrame ==
  /\ ArchiveStore
  /\ session = [p1 |-> "u1", p2 |-> "u2"]
  /\ overlap = FALSE

NextFrame ==
  \/ \E p \in Procs, S \in DocIds : \E D \in DocIds \ {S} :
        deleteDuplicateDocuments(p, S, D)
  \/ \E p \in Procs : dd_source(p)
  \/ \E p \in Procs : dd_duplicate(p)
  \/ \E p \in Procs : dd_memory(p)
  \/ \E p \in Procs : dd_document(p)
  \/ \E p \in Procs : dd_relationship(p)
  \/ \E p \in Procs, S \in DocIds : \E D \in DocIds \ {S} :
        deleteDuplicateDocumentsV1(p, S, D)
  \/ \E p \in Procs : dv_relationship(p)
  \/ \E p \in Procs : dv_document(p)
  \/ \E p \in Procs : Return(p)

SpecFrame == InitFrame /\ [][NextFrame]_vars

Deleting(p) ==
  /\ InFlight(p)
  /\ frame[p].op \in {"deleteDuplicateDocuments", "deleteDuplicateDocumentsV1"}

\* A step of a call deleteDuplicateDocuments(S, D, u).
C27_Step ==
  \A p \in Procs : Deleting(p) /\ frame'[p] # frame[p] =>
    LET S == frame[p].sourceDocumentId
        D == frame[p].duplicateDocumentId
        u == frame[p].userId
    IN /\ \A id \in DocIds \ {D} :
            id \in DOMAIN documents' /\ documents'[id] = documents[id]
       /\ \A id \in DocIds :
            documents[id].user_id # u =>
              id \in DOMAIN documents' /\ documents'[id] = documents[id]
       /\ DOMAIN documents' \subseteq DocIds
       /\ duplicates' \subseteq duplicates
       /\ \A r \in duplicates :
            /\ r.source_document_id # D
            /\ r.duplicate_document_id # D
            => r \in duplicates'

\* C27: no step of deleteDuplicateDocuments(S, D, u), in either service,
\* removes or changes a document other than D or a document of another
\* user, or a relationship record that involves neither D nor the pair
\* (S, D).
C27_DeleteFrame == [][C27_Step]_vars

\* A call has deleted D; the source, a document of another user and a
\* relationship record of the source with a third document are still there.
C27_OthersRemain ==
  \E p \in Procs :
    /\ frame[p].pc = "done"
    /\ frame[p].op \in {"deleteDuplicateDocuments", "deleteDuplicateDocumentsV1"}
    /\ "document" \in frame[p].wrote
    /\ frame[p].duplicateDocumentId \notin DocIds
    /\ frame[p].sourceDocumentId \in DocIds
    /\ \E id \in DocIds : documents[id].user_id # frame[p].userId
    /\ \E r \in duplicates : r.source_document_id = frame[p].sourceDocumentId

(***************************************************************************)
(* DuplicateManagement page: handleBulkAction("delete") for two selected   *)
(* records.                                                                *)
(***************************************************************************)
\* selectedDuplicates.map(..) begins a deleteDuplicateDocuments call for
\* each selected record, both before the first of them is answered;
\* Promise.all awaits them.  The two frames hold the two calls.
handleBulkAction(r1, r2) ==
  /\ \A p \in Procs : Free(p)
  /\ calls + 2 <= MaxCalls
  /\ calls' = calls + 2
  /\ LET call(p, r) ==
           [Idle EXCEPT !.op = "deleteDuplicateDocuments", !.pc = "dd_source",
                        !.flow = "handleBulkAction", !.userId = session[p],
                        !.sourceDocumentId = r.source_document_id,
                        !.duplicateDocumentId = r.duplicate_document_id]
     IN frame' = [p \in Procs |-> IF p = "p1" THEN call(p, r1) ELSE call(p, r2)]
  /\ UNCHANGED <<documents, objects, nextId, deleted_duplicates_memory,
                 duplicates, session, page, past, overlap>>

NextBulk ==
  \/ \E r1 \in ListedDuplicates(session["p1"]) :
        \E r2 \in ListedDuplicates(session["p1"]) \ {r1} : handleBulkAction(r1, r2)
  \/ \E p \in Procs : dd_source(p)
  \/ \E p \in Procs : dd_duplicate(p)
  \/ \E p \in Procs : dd_memory(p)
  \/ \E p \in Procs : dd_document(p)
  \/ \E p \in Procs : dd_relationship(p)
  \/ \E p \in Procs : Return(p)

SpecBulk == InitArchive /\ [][NextBulk]_vars

\* C28: no call of a bulk delete fails on the read of its duplicate document
\* because the other call of the bulk, for a record with the same duplicate
\* document, has deleted it; such a call returns, with its entry in the
\* ledger.
C28_BulkDeleteCompletes ==
  \A p \in Procs :
    /\ Done(p, "deleteDuplicateDocuments")
    /\ frame[p].flow = "handleBulkAction"
    /\ "duplicate" \in frame[p].failed
    => frame[p].duplicateDocumentId \in DocIds

(***************************************************************************)
(* Upload page: handleProcess for a batch of selected files.               *)
(***************************************************************************)
MaxBatch == 2

\* The selections of files a user can make.
Batches(uid) == UNION {[1..n -> FilesOf[uid]] : n \in 1..MaxBatch}

\* handleProcess up to the call of uploadDocument for the first file.
handleProcessBatch(p, files) ==
  /\ Free(p)
  /\ nextId <= MaxDocs
  /\ calls < MaxCalls
  /\ calls' = calls + 1
  /\ frame' = [frame EXCEPT ![p] =
       [Idle EXCEPT !.op = "uploadDocument", !.pc = "up_storage",
                    !.flow = "handleProcess", !.userId = session[p],
                    !.file = Head(files), !.batch = Tail(files)]]
  /\ processedFiles' = [processedFiles EXCEPT ![p] = <<>>]
  /\ duplicateResults' = [duplicateResults EXCEPT ![p] = NoResult]
  /\ UNCHANGED <<documents, objects, nextId, deleted_duplicates_memory,
                 duplicates, session, past, overlap>>

\* The loop goes on after a throw as well.
LoopContinues_Always(fr) == TRUE

\* for (const file of files): the body has ended without a throw, after
\* results.push or after the toast of a failed upload.
LoopContinues(fr) ==
  \/ fr.op = "checkForDuplicates" /\ fr.ret = "ok"
  \/ fr.op = "uploadDocument" /\ fr.ret = "failure"

\* The next iteration: uploadDocument for the next file, up to its first
\* request.
nextFile(p) ==
  /\ frame[p].pc = "done"
  /\ frame[p].flow = "handleProcess"
  /\ frame[p].batch # <<>>
  /\ LoopContinues(frame[p])
  /\ frame' = [frame EXCEPT ![p] =
       [Idle EXCEPT !.op = "uploadDocument", !.pc = "up_storage",
                    !.flow = "handleProcess", !.userId = frame[p].userId,
                    !.file = Head(frame[p].batch),
                    !.batch = Tail(frame[p].batch)]]
  /\ UNCHANGED <<documents, objects, nextId, deleted_duplicates_memory,
                 duplicates, session, page, past, calls, overlap>>

\* The loop has ended: no file is left, or a call has thrown and the catch
\* block of handleProcess has run.
BatchOver(p) == frame[p].batch = <<>> \/ ~LoopContinues(frame[p])

NextBatch ==
  \/ \E p \in Procs : \E files \in Batches(session[p]) : handleProcessBatch(p, files)
  \/ \E p \in Procs : up_storage(p)
  \/ \E p \in Procs : up_insert(p)
  \/ \E p \in Procs : uh_update(p)
  \/ \E p \in Procs : uh_verify(p)
  \/ \E p \in Procs : cd_docs(p)
  \/ \E p \in Procs : cd_mem(p)
  \/ \E p \in Procs : nextFile(p)
  \/ \E p \in Procs : BatchOver(p) /\ Return(p)

SpecBatch == Init /\ [][NextBatch]_vars

\* The order of the calls for one file: the hash is updated for a created
\* record, and a scan runs for a document whose hash update has returned the
\* committed hash of the file.
C29_Order ==
  \A p \in Procs : frame[p].flow = "handleProcess" =>
    /\ frame[p].op = "updateDocumentHash" =>
         /\ frame[p].document # <<>>
         /\ frame[p].document[1].id = frame[p].documentId
    /\ frame[p].op = "checkForDuplicates" =>
         /\ frame[p].hashUpdate # <<>>
         /\ frame[p].hashUpdate[1].ret = "ok"
         /\ "hash" \in frame[p].hashUpdate[1].wrote
         /\ frame[p].hashUpdate[1].value = generateContentHash(frame[p].file)

\* After a failed hash update the handler ends: no scan and no upload
\* follows in the batch.
C29_Step ==
  \A p \in Procs :
    /\ Done(p, "updateDocumentHash")
    /\ frame'[p] # frame[p]
    => /\ frame'[p] = Idle
       /\ UNCHANGED <<documents, objects, nextId>>

\* C29: in handleProcess the record of a file is created, then its hash is
\* committed, then its scan runs; a scan starts only after the hash update
\* of its document has succeeded, and after a failed hash update neither a
\* scan of that document nor an upload of a later file of the batch runs.
C29_UploadOrder == []C29_Order /\ [][C29_Step]_vars

\* The hash update of the first file of a batch has failed with a file left.
C29_HashUpdateFailedInBatch ==
  \E p \in Procs :
    /\ Done(p, "updateDocumentHash")
    /\ frame[p].ret = "raised"
    /\ frame[p].batch # <<>>

\* C30: when uploadDocument has returned success = false, neither the
\* object nor the record of that call is in the store; when it has returned
\* success = true (handleProcess goes on to updateDocumentHash), both are.
C30_UploadAllOrNothing ==
  \A p \in Procs :
    /\ Done(p, "uploadDocument") /\ frame[p].ret = "failure" =>
         /\ frame[p].documentId \notin objects
         /\ frame[p].documentId \notin DocIds
    /\ frame[p].op = "updateDocumentHash" /\ frame[p].pc = "uh_update" =>
         /\ frame[p].documentId \in objects
         /\ frame[p].documentId \in DocIds

====
